---- MODULE Spec2Model ----
(***************************************************************************)
(* Model of the auto-chess combat engine (combat.js, unit.js, data.js).    *)
(*                                                                         *)
(* Objects live in a heap: `units` maps a reference to a Unit object and   *)
(* `buffs` maps a reference to a buffs object, so that sharing between the *)
(* caller's units and the engine's clones can be expressed.  JavaScript    *)
(* numbers that can become NaN (currentHp, damage amounts) are records     *)
(* [nan, v].  Times are counted in ticks of COMBAT_TICK_MS.                *)
(***************************************************************************)
EXTENDS Integers, Sequences, FiniteSets, TLC

VARIABLES
    units,          \* heap of Unit objects: Seq of records, index = reference
    buffs,          \* heap of buffs objects: Seq of records, index = reference
    inPlayer,       \* the caller's player roster: Seq of references
    inEnemy,        \* the caller's enemy roster: Seq of references
    input0,         \* history: the caller's objects as they were at construction
    playerUnits,    \* Combat.playerUnits: Seq of references
    enemyUnits,     \* Combat.enemyUnits: Seq of references
    isRunning,      \* Combat.isRunning
    tickCount,      \* Combat.tickCount
    tickInterval,   \* Combat.tickInterval: TRUE when an interval timer is set
    result,         \* Combat.result
    combatLog,      \* Combat.combatLog
    occupied,       \* Combat.occupiedPositions
    onCombatEnd,    \* Combat.onCombatEnd: TRUE when a resolve callback is stored
    onTick,         \* Combat.onTick: TRUE when a tick callback is stored
    observed,       \* number of times the tick callback has been called
    resolved,       \* number of times the completion callback has been called
    mode,           \* "new" | "realtime" | "sync" | "unit": which driver runs
    pc,             \* position of the driver: "idle" | "loop" | "returned"
    maxTicks,       \* the maxTicks argument of runSync
    tickCalls,      \* history: number of calls of tick()
    lastOp,         \* history: last Unit method called directly, with its result
    frame,          \* the call of tick() in progress, when it is followed unit by unit
    gameState,      \* the GameState object: gold, pool, owned units, bench, board
    game,           \* the Game controller: prep timer, pending await, enemy board
    timers          \* the environment's timers: active intervals, pending timeouts

vars == <<units, buffs, inPlayer, inEnemy, input0, playerUnits, enemyUnits,
          isRunning, tickCount, tickInterval, result, combatLog, occupied,
          onCombatEnd, onTick, observed, resolved, mode, pc, maxTicks,
          tickCalls, lastOp, frame, gameState, game, timers>>

----------------------------------------------------------------------------
(* Bounds of the model *)

MaxRoster == 2        \* units per input roster
MaxTicksArg == 3      \* largest maxTicks passed to runSync
MaxRealTicks == 4     \* ticks explored in real-time mode
MaxLateTicks == 1     \* calls of tick() made after the engine stopped
MaxUnitOps == 4       \* direct calls of Unit methods in SpecUnit
MaxCount == 8         \* largest trait count passed to the threshold lookups
MaxBoard == 4         \* units a player owns in SpecBoard
MaxTraitOps == 2      \* calls made in SpecBonus and in SpecBoard

----------------------------------------------------------------------------
(* data.js *)

BOARD_COLS == 8
BOARD_ROWS == 8
COMBAT_TICK_MS == 100
MANA_PER_ATTACK == 10
MANA_PER_DAMAGE_TAKEN == 5
MAX_MANA == 100

NullRef == 0          \* a null object reference (unit.target = null)
NoPos == <<>>         \* x = y = null: the unit is not on the board
Infinity == 1000      \* larger than every distance and range on the board

Max(a, b) == IF a >= b THEN a ELSE b
Min(a, b) == IF a <= b THEN a ELSE b
Abs(a) == IF a < 0 THEN -a ELSE a
Sign(a) == IF a > 0 THEN 1 ELSE IF a < 0 THEN -1 ELSE 0

(* JavaScript numbers that may be NaN *)
Num(n) == [nan |-> FALSE, v |-> n]
NaN == [nan |-> TRUE, v |-> 0]

NoAbility ==
    [present |-> FALSE, damage |-> 0, aoe |-> FALSE, stun |-> 0, slow |-> 0,
     duration |-> 0, damageMultiplier |-> 0, armorBonus |-> 0,
     attackBonus |-> 0, chainTargets |-> 0, hits |-> 0]

Ability(r) == [k \in DOMAIN NoAbility |->
                 IF k = "present" THEN TRUE
                 ELSE IF k \in DOMAIN r THEN r[k] ELSE NoAbility[k]]

(* Unit templates.  attackSpeed is in thousandths of an attack per second, *)
(* stun and duration in milliseconds, slow in thousandths,                 *)
(* damageMultiplier in tenths.                                             *)
UNITS ==
    [squire |->
        [hp |-> 550, attack |-> 50, attackSpeed |-> 700, range |-> 1,
         armor |-> 20, magicResist |-> 10, traits |-> <<"warrior">>,
         ability |-> NoAbility],
     apprentice |->
        [hp |-> 400, attack |-> 40, attackSpeed |-> 600, range |-> 3,
         armor |-> 10, magicResist |-> 20, traits |-> <<"mage">>,
         ability |-> Ability([damage |-> 150])],
     scout |->
        [hp |-> 450, attack |-> 55, attackSpeed |-> 800, range |-> 3,
         armor |-> 10, magicResist |-> 10, traits |-> <<"ranger">>,
         ability |-> NoAbility],
     knight |->
        [hp |-> 750, attack |-> 55, attackSpeed |-> 600, range |-> 1,
         armor |-> 40, magicResist |-> 20, traits |-> <<"warrior", "tank">>,
         ability |-> Ability([damage |-> 100, stun |-> 1000])],
     pyromancer |->
        [hp |-> 500, attack |-> 45, attackSpeed |-> 600, range |-> 3,
         armor |-> 10, magicResist |-> 25, traits |-> <<"mage", "elemental">>,
         ability |-> Ability([damage |-> 250, aoe |-> TRUE])],
     stormArcher |->
        [hp |-> 620, attack |-> 85, attackSpeed |-> 900, range |-> 4,
         armor |-> 15, magicResist |-> 25, traits |-> <<"ranger", "elemental">>,
         ability |-> Ability([damage |-> 250, chainTargets |-> 3])],
     stoneGolem |->
        [hp |-> 900, attack |-> 45, attackSpeed |-> 400, range |-> 1,
         armor |-> 50, magicResist |-> 30, traits |-> <<"tank", "elemental">>,
         ability |-> Ability([armorBonus |-> 50, duration |-> 3000])]]

(* STAR_MULTIPLIERS, in tenths *)
STAR_MULTIPLIERS ==
    [s \in 1..3 |-> IF s = 1 THEN [hp |-> 10, attack |-> 10]
                    ELSE IF s = 2 THEN [hp |-> 18, attack |-> 18]
                    ELSE [hp |-> 32, attack |-> 32]]

ZeroBuffs ==
    [attackBonus |-> 0, armorBonus |-> 0, magicResistBonus |-> 0,
     attackSpeedBonus |-> 0, hpBonus |-> 0, spellPower |-> 0,
     critChance |-> 0, critDamage |-> 0, damageReduction |-> 0,
     magicDamage |-> 0, manaRegen |-> 0]

(* TRAITS: per trait the bonus bundles, highest threshold first (the order *)
(* in which getTraitBonus tries them); attackSpeedBonus in thousandths.    *)
TRAITS ==
    [warrior |-> <<[threshold |-> 4,
                    bonus |-> [armor |-> 55, attackBonus |-> 15]],
                   [threshold |-> 2, bonus |-> [armor |-> 25]]>>,
     mage |-> <<[threshold |-> 4,
                 bonus |-> [spellPower |-> 50, manaRegen |-> 25]],
                [threshold |-> 2,
                 bonus |-> [spellPower |-> 20, manaRegen |-> 10]]>>,
     assassin |-> <<[threshold |-> 4,
                     bonus |-> [critChance |-> 35, critDamage |-> 50]],
                    [threshold |-> 2,
                     bonus |-> [critChance |-> 15, critDamage |-> 25]]>>,
     tank |-> <<[threshold |-> 4,
                 bonus |-> [hpBonus |-> 500, damageReduction |-> 25]],
                [threshold |-> 2,
                 bonus |-> [hpBonus |-> 200, damageReduction |-> 10]]>>,
     ranger |-> <<[threshold |-> 4,
                   bonus |-> [attackSpeedBonus |-> 500, range |-> 1]],
                  [threshold |-> 2,
                   bonus |-> [attackSpeedBonus |-> 200]]>>,
     elemental |-> <<[threshold |-> 4,
                      bonus |-> [magicDamage |-> 45, magicResist |-> 45]],
                     [threshold |-> 2,
                      bonus |-> [magicDamage |-> 20, magicResist |-> 20]]>>]

NoBonus == [threshold |-> 0, bonus |-> [none |-> 0]]

(* a lookup that tries the thresholds lowest first *)
FirstMet_lowest(thresholds, i, count) ==
    LET met == { k \in i..Len(thresholds) : count >= thresholds[k].threshold }
    IN  IF met = {} THEN NoBonus
        ELSE thresholds[CHOOSE k \in met : \A j \in met : j <= k]

RECURSIVE FirstMet(_, _, _)
FirstMet(thresholds, i, count) ==
    IF i > Len(thresholds) THEN NoBonus
    ELSE IF count >= thresholds[i].threshold THEN thresholds[i]
    ELSE FirstMet(thresholds, i + 1, count)

(* getTraitBonus: thresholds sorted descending, first one the count meets; *)
(* NoBonus (threshold 0) stands for null.                                  *)
getTraitBonus(traitId, count) ==
    IF traitId \notin DOMAIN TRAITS THEN NoBonus
    ELSE FirstMet(TRAITS[traitId], 1, count)

----------------------------------------------------------------------------
(* unit.js *)

(* The operators below take and return the state H of the heap and of the *)
(* Combat object as one record: units and buffs are the heaps, pl and en   *)
(* the engine's rosters, tick its tickCount, log its combatLog.            *)
Cur ==
    [units |-> units, buffs |-> buffs, pl |-> playerUnits, en |-> enemyUnits,
     occupied |-> occupied, log |-> combatLog, tick |-> tickCount,
     isRunning |-> isRunning, tickInterval |-> tickInterval,
     result |-> result, onCombatEnd |-> onCombatEnd, onTick |-> onTick,
     observed |-> observed, resolved |-> resolved]

(* the next state of the heap and of the Combat object is H *)
Becomes(H) ==
    /\ units' = H.units
    /\ buffs' = H.buffs
    /\ playerUnits' = H.pl
    /\ enemyUnits' = H.en
    /\ occupied' = H.occupied
    /\ combatLog' = H.log
    /\ tickCount' = H.tick
    /\ isRunning' = H.isRunning
    /\ tickInterval' = H.tickInterval
    /\ result' = H.result
    /\ onCombatEnd' = H.onCombatEnd
    /\ onTick' = H.onTick
    /\ observed' = H.observed
    /\ resolved' = H.resolved

U(H, r) == H.units[r]
B(H, r) == H.buffs[H.units[r].buffs]

NoStatus ==
    [stunned |-> FALSE, stunDuration |-> 0, slowed |-> FALSE,
     slowAmount |-> 0, slowDuration |-> 0]

(* unit.traits and unit.ability are copies of the template's, made by the  *)
(* constructor and never written afterwards.                               *)
traitsOf(u) == UNITS[u.templateId].traits
abilityOf(u) == UNITS[u.templateId].ability

(* new Unit(templateId, starLevel): the object and its own buffs object,   *)
(* which is stored at reference b.                                         *)
NewUnit(templateId, starLevel, b) ==
    LET t == UNITS[templateId]
        m == STAR_MULTIPLIERS[starLevel]
        hp == (t.hp * m.hp) \div 10
    IN  [templateId |-> templateId, starLevel |-> starLevel,
         maxHp |-> hp, baseAttack |-> (t.attack * m.attack) \div 10,
         attackSpeed |-> t.attackSpeed, range |-> t.range,
         armor |-> t.armor, magicResist |-> t.magicResist,
         currentHp |-> Num(hp), currentMana |-> 0, maxMana |-> MAX_MANA,
         pos |-> NoPos, state |-> "idle", target |-> NullRef,
         attackCooldown |-> 0, buffs |-> b, statusEffects |-> NoStatus,
         ownerId |-> "null"]

(* The value read from the property `attack` of a unit.  The class body    *)
(* defines the accessor `get attack()` and later the method `attack()`     *)
(* under the same name; the later definition replaces the accessor, so the *)
(* property holds the method, and a function used as a number is NaN.      *)
attackGetter(H, r) == Num(U(H, r).baseAttack + B(H, r).attackBonus)
unitAttack(H, r) == NaN

effectiveArmor(H, r) == U(H, r).armor + B(H, r).armorBonus
effectiveMagicResist(H, r) == U(H, r).magicResist + B(H, r).magicResistBonus
effectiveMaxHp(H, r) == U(H, r).maxHp + B(H, r).hpBonus

(* in thousandths of an attack per second *)
effectiveAttackSpeed(H, r) ==
    LET s  == U(H, r).attackSpeed + B(H, r).attackSpeedBonus
        e  == U(H, r).statusEffects
        sl == IF e.slowed THEN (s * (1000 - e.slowAmount)) \div 1000 ELSE s
    IN  Max(100, sl)

isAliveU(u) == ~u.currentHp.nan /\ u.currentHp.v > 0 /\ u.state # "dead"
isAlive(H, r) == isAliveU(U(H, r))
isOnBoard(H, r) == U(H, r).pos # NoPos
canAct(H, r) == isAlive(H, r) /\ ~U(H, r).statusEffects.stunned

(* Number of subtractions of deltaTime = 0.1 after which a timer that      *)
(* starts at ms/1000 seconds is <= 0, in IEEE double arithmetic: 0.5 and   *)
(* 1.0 leave a positive residue after 5 and 10 subtractions.               *)
Decrements(ms) ==
    (ms + COMBAT_TICK_MS - 1) \div COMBAT_TICK_MS
        + (IF ms \in {500, 1000} THEN 1 ELSE 0)

(* The same for the attack cooldown 1 / effectiveAttackSpeed; speed in     *)
(* thousandths.  The cooldown is kept as this number of decrements.        *)
CooldownTicks(speed) ==
    (10000 + speed - 1) \div speed + (IF speed = 1000 THEN 1 ELSE 0)

(* Math.floor(amount * (1 - D / (D + 100))) *)
Mitigate(amount, D) == (amount * 100) \div (D + 100)

die(H, r) ==
    [H EXCEPT !.units[r].currentHp = Num(0),
              !.units[r].state = "dead",
              !.units[r].target = NullRef]

(* An operator that reads its argument more than once takes it as Hin and  *)
(* binds it as the one element of {Hin}, so that the value is computed     *)
(* once however long the chain of calls that produces it.                  *)
gainMana(Hin, r, amount) ==
    CHOOSE out \in
      { IF ~isAlive(H, r) THEN H
        ELSE LET totalGain == amount + B(H, r).manaRegen
             IN  [H EXCEPT !.units[r].currentMana =
                     Min(U(H, r).maxMana, U(H, r).currentMana + totalGain)]
        : H \in {Hin} } : TRUE

(* takeDamage(amount, type): the new heap and the value returned *)
takeDamage(Hin, r, amountIn, type) ==
    CHOOSE out \in
      { IF ~isAlive(H, r) THEN [H |-> H, ret |-> Num(0)]
        ELSE
          LET D  == IF type = "physical" THEN effectiveArmor(H, r)
                    ELSE effectiveMagicResist(H, r)
              a1 == IF amount.nan THEN NaN
                    ELSE IF type \in {"physical", "magic"}
                         THEN Num(Mitigate(amount.v, D))
                         ELSE amount
              dr == B(H, r).damageReduction
              a2 == IF dr > 0 /\ ~a1.nan
                    THEN Num((a1.v * (100 - dr)) \div 100) ELSE a1
              actualDamage == IF a2.nan THEN NaN ELSE Num(Max(1, a2.v))
              hp == IF actualDamage.nan THEN NaN
                    ELSE Num(Max(0, U(H, r).currentHp.v - actualDamage.v))
              H1 == [H EXCEPT !.units[r].currentHp = hp]
              H2 == gainMana(H1, r, MANA_PER_DAMAGE_TAKEN)
              H3 == IF ~hp.nan /\ hp.v <= 0 THEN die(H2, r) ELSE H2
          IN  [H |-> H3, ret |-> actualDamage]
        : H \in {Hin}, amount \in {amountIn} } : TRUE

(* heal without its first line `if (!this.isAlive) return 0` *)
heal_unguarded(Hin, r, amount) ==
    CHOOSE out \in
      { LET maxHeal == effectiveMaxHp(H, r) - U(H, r).currentHp.v
            actualHeal == Min(amount, maxHeal)
        IN  [H |-> [H EXCEPT !.units[r].currentHp =
                                 Num(U(H, r).currentHp.v + actualHeal)],
             ret |-> actualHeal]
        : H \in {Hin} } : TRUE

heal(Hin, r, amount) ==
    CHOOSE out \in
      { IF ~isAlive(H, r) THEN [H |-> H, ret |-> 0]
        ELSE LET maxHeal == effectiveMaxHp(H, r) - U(H, r).currentHp.v
                 actualHeal == Min(amount, maxHeal)
             IN  [H |-> [H EXCEPT !.units[r].currentHp =
                                      Num(U(H, r).currentHp.v + actualHeal)],
                  ret |-> actualHeal]
        : H \in {Hin} } : TRUE

resetForCombat(Hin, r) ==
    CHOOSE out \in
      { [H EXCEPT !.units[r].currentHp = Num(effectiveMaxHp(H, r)),
                  !.units[r].currentMana = 0,
                  !.units[r].state = "idle",
                  !.units[r].target = NullRef,
                  !.units[r].attackCooldown = 0,
                  !.units[r].statusEffects = NoStatus]
        : H \in {Hin} } : TRUE

applyStun(Hin, r, duration) ==
    CHOOSE out \in
      { IF ~isAlive(H, r) THEN H
        ELSE [H EXCEPT !.units[r].statusEffects.stunned = TRUE,
                       !.units[r].statusEffects.stunDuration =
                           Max(U(H, r).statusEffects.stunDuration,
                               Decrements(duration))]
        : H \in {Hin} } : TRUE

applySlow(Hin, r, amount, duration) ==
    CHOOSE out \in
      { IF ~isAlive(H, r) THEN H
        ELSE [H EXCEPT !.units[r].statusEffects.slowed = TRUE,
                       !.units[r].statusEffects.slowAmount =
                           Max(U(H, r).statusEffects.slowAmount, amount),
                       !.units[r].statusEffects.slowDuration =
                           Max(U(H, r).statusEffects.slowDuration,
                               Decrements(duration))]
        : H \in {Hin} } : TRUE

(* updateStatusEffects(deltaTime) with deltaTime one tick *)
updateStatusEffects(Hin, r) ==
    CHOOSE out \in
      { LET e  == U(H, r).statusEffects
            e1 == IF e.stunned
                  THEN IF e.stunDuration - 1 <= 0
                       THEN [e EXCEPT !.stunned = FALSE, !.stunDuration = 0]
                       ELSE [e EXCEPT !.stunDuration = e.stunDuration - 1]
                  ELSE e
            e2 == IF e1.slowed
                  THEN IF e1.slowDuration - 1 <= 0
                       THEN [e1 EXCEPT !.slowed = FALSE, !.slowAmount = 0,
                                       !.slowDuration = 0]
                       ELSE [e1 EXCEPT !.slowDuration = e1.slowDuration - 1]
                  ELSE e1
        IN  [H EXCEPT !.units[r].statusEffects = e2]
        : H \in {Hin} } : TRUE

resetBuffs(Hin, r) ==
    CHOOSE out \in
      { [H EXCEPT !.buffs[U(H, r).buffs] = ZeroBuffs] : H \in {Hin} } : TRUE

getDistanceTo(H, r, o) ==
    IF ~isOnBoard(H, r) \/ ~isOnBoard(H, o) THEN Infinity
    ELSE Max(Abs(U(H, r).pos[1] - U(H, o).pos[1]),
             Abs(U(H, r).pos[2] - U(H, o).pos[2]))

(* a clone() that hands back the unit itself instead of a copy *)
clone_alias(r, fresh) == r

(* clone(): the reference of the copy.  The copy is a new object, stored   *)
(* at the fresh reference, with its own buffs object.                      *)
clone(r, fresh) == fresh
cloneBuffs(b, fresh) == fresh

(* The fields of the object clone() builds for unit u: a new Unit from the *)
(* template, then the copied state.                                        *)
ClonedUnit(u, b) ==
    [NewUnit(u.templateId, u.starLevel, b) EXCEPT
        !.currentHp = u.currentHp, !.currentMana = u.currentMana,
        !.pos = u.pos, !.state = u.state, !.ownerId = u.ownerId,
        !.statusEffects = u.statusEffects]

----------------------------------------------------------------------------
(* combat.js *)

(* log(type, data).  The entries name units by reference where the code    *)
(* writes unit.name.                                                       *)
log(Hin, type, data) ==
    CHOOSE out \in
      { [H EXCEPT !.log = Append(@, [tick |-> H.tick, type |-> type,
                                     data |-> data])]
        : H \in {Hin} } : TRUE

(* the same search keeping the last of the enemies at the least distance   *)
RECURSIVE ClosestEnemy_lastOnTies(_, _, _, _, _, _)
ClosestEnemy_lastOnTies(H, r, valid, i, closestEnemy, closestDistance) ==
    IF i > Len(valid) THEN closestEnemy
    ELSE LET distance == getDistanceTo(H, r, valid[i])
         IN  IF distance <= closestDistance /\ distance < Infinity
             THEN ClosestEnemy_lastOnTies(H, r, valid, i + 1, valid[i], distance)
             ELSE ClosestEnemy_lastOnTies(H, r, valid, i + 1, closestEnemy,
                                          closestDistance)

RECURSIVE ClosestEnemy(_, _, _, _, _, _)
ClosestEnemy(H, r, valid, i, closestEnemy, closestDistance) ==
    IF i > Len(valid) THEN closestEnemy
    ELSE LET distance == getDistanceTo(H, r, valid[i])
         IN  IF distance < closestDistance
             THEN ClosestEnemy(H, r, valid, i + 1, valid[i], distance)
             ELSE ClosestEnemy(H, r, valid, i + 1, closestEnemy, closestDistance)

(* findTarget whose filter keeps every enemy that is on the board, alive   *)
(* or not                                                                  *)
findTarget_anyEnemy(Hin, r, enemiesIn) ==
    CHOOSE out \in
      { IF ~isAlive(H, r) \/ Len(enemies) = 0
        THEN [H EXCEPT !.units[r].target = NullRef]
        ELSE LET validEnemies ==
                     SelectSeq(enemies, LAMBDA e : isOnBoard(H, e))
             IN  IF Len(validEnemies) = 0
                 THEN [H EXCEPT !.units[r].target = NullRef]
                 ELSE [H EXCEPT !.units[r].target =
                         ClosestEnemy(H, r, validEnemies, 1, NullRef, Infinity)]
        : H \in {Hin}, enemies \in {enemiesIn} } : TRUE

(* findTarget(unit, enemies): the heap with unit.target assigned *)
findTarget(Hin, r, enemiesIn) ==
    CHOOSE out \in
      { IF ~isAlive(H, r) \/ Len(enemies) = 0
        THEN [H EXCEPT !.units[r].target = NullRef]
        ELSE LET validEnemies ==
                     SelectSeq(enemies,
                               LAMBDA e : isAlive(H, e) /\ isOnBoard(H, e))
             IN  IF Len(validEnemies) = 0
                 THEN [H EXCEPT !.units[r].target = NullRef]
                 ELSE [H EXCEPT !.units[r].target =
                         ClosestEnemy(H, r, validEnemies, 1, NullRef, Infinity)]
        : H \in {Hin}, enemies \in {enemiesIn} } : TRUE

isValidPosition(x, y) ==
    x >= 0 /\ x < BOARD_COLS /\ y >= 0 /\ y < BOARD_ROWS

(* a generateMoveOptions that offers no cell *)
generateMoveOptions_none(pos, dx, dy) == << >>

(* generateMoveOptions(unit, dx, dy) *)
generateMoveOptions(pos, dx, dy) ==
    IF dx # 0 /\ dy # 0
    THEN << <<pos[1] + dx, pos[2] + dy>>, <<pos[1] + dx, pos[2]>>,
            <<pos[1], pos[2] + dy>> >>
    ELSE IF dx # 0
    THEN << <<pos[1] + dx, pos[2]>>, <<pos[1] + dx, pos[2] + 1>>,
            <<pos[1] + dx, pos[2] - 1>> >>
    ELSE IF dy # 0
    THEN << <<pos[1], pos[2] + dy>>, <<pos[1] + 1, pos[2] + dy>>,
            <<pos[1] - 1, pos[2] + dy>> >>
    ELSE << >>

(* index of the first option that is free, on the board or not *)
RECURSIVE FirstFree_anyCell(_, _, _)
FirstFree_anyCell(H, options, i) ==
    IF i > Len(options) THEN 0
    ELSE IF options[i] \notin H.occupied THEN i
         ELSE FirstFree_anyCell(H, options, i + 1)

(* index of the first option that is on the board, free or not *)
RECURSIVE FirstFree_ignoringUnits(_, _, _)
FirstFree_ignoringUnits(H, options, i) ==
    IF i > Len(options) THEN 0
    ELSE IF isValidPosition(options[i][1], options[i][2]) THEN i
         ELSE FirstFree_ignoringUnits(H, options, i + 1)

(* index of the first option that is on the board and free, 0 if none *)
RECURSIVE FirstFree(_, _, _)
FirstFree(H, options, i) ==
    IF i > Len(options) THEN 0
    ELSE IF isValidPosition(options[i][1], options[i][2])
            /\ options[i] \notin H.occupied
         THEN i
         ELSE FirstFree(H, options, i + 1)

(* moveToward(unit, target) *)
moveToward(Hin, r, t) ==
    CHOOSE out \in
      { IF ~canAct(H, r) \/ ~isOnBoard(H, r) \/ t = NullRef THEN H
        ELSE IF ~isOnBoard(H, t) THEN H
        ELSE
          LET pos == U(H, r).pos
              dx  == Sign(U(H, t).pos[1] - pos[1])
              dy  == Sign(U(H, t).pos[2] - pos[2])
              moveOptions == generateMoveOptions(pos, dx, dy)
              k   == FirstFree(H, moveOptions, 1)
          IN  IF dx = 0 /\ dy = 0 THEN H
              ELSE IF k = 0 THEN [H EXCEPT !.units[r].state = "idle"]
              ELSE
                LET option == moveOptions[k]
                    H1 == [H EXCEPT !.occupied = (@ \ {pos}) \cup {option},
                                    !.units[r].pos = option,
                                    !.units[r].state = "moving"]
                    \* the log entry is built after unit.x and unit.y were
                    \* assigned: from = unit.x - (option.x - unit.x)
                    ux == U(H1, r).pos[1]
                    uy == U(H1, r).pos[2]
                IN  log(H1, "move",
                        [unit |-> r,
                         from |-> <<ux - (option[1] - ux),
                                    uy - (option[2] - uy)>>,
                         to |-> <<ux, uy>>])
        : H \in {Hin} } : TRUE

aliveOf(H, roster) == SelectSeq(roster, LAMBDA u : isAlive(H, u))

(* the crowd control of an ability on one enemy: applyStun, applySlow *)
AbilityControl(Hin, c, enemy) ==
    CHOOSE out \in
      { LET ability == abilityOf(U(H, c))
            H1 == IF ability.stun # 0 THEN applyStun(H, enemy, ability.stun)
                  ELSE H
        IN  IF ability.slow # 0
            THEN applySlow(H1, enemy, ability.slow,
                           IF ability.duration # 0 THEN ability.duration
                           ELSE 2000)
            ELSE H1
        : H \in {Hin} } : TRUE

(* the damage of an ability on one enemy, logged, then its crowd control *)
AbilityDamageOn(Hin, c, enemy, baseDamage) ==
    CHOOSE out \in
      { AbilityControl(log(td.H, "ability_damage",
                           [caster |-> c, target |-> enemy, damage |-> td.ret]),
                       c, enemy)
        : td \in {takeDamage(Hin, enemy, Num(baseDamage), "magic")} } : TRUE

RECURSIVE AoeDamage(_, _, _, _, _)
AoeDamage(H, c, enemies, i, baseDamage) ==
    IF i > Len(enemies) THEN H
    ELSE AoeDamage(AbilityDamageOn(H, c, enemies[i], baseDamage),
                   c, enemies, i + 1, baseDamage)

RECURSIVE BuffAllies(_, _, _, _)
BuffAllies(Hin, allies, i, bonus) ==
    CHOOSE out \in
      { IF i > Len(allies) THEN H
        ELSE BuffAllies(
               [H EXCEPT !.buffs[U(H, allies[i]).buffs].attackBonus = @ + bonus],
               allies, i + 1, bonus)
        : H \in {Hin} } : TRUE

(* [...enemies].sort by distance from the caster: stable insertion *)
RECURSIVE InsertByDistance(_, _, _, _)
InsertByDistance(H, c, sortedIn, e) ==
    CHOOSE out \in
      { IF sorted = << >> THEN <<e>>
        ELSE IF getDistanceTo(H, c, e) < getDistanceTo(H, c, Head(sorted))
             THEN <<e>> \o sorted
             ELSE <<Head(sorted)>> \o InsertByDistance(H, c, Tail(sorted), e)
        : sorted \in {sortedIn} } : TRUE

RECURSIVE SortByDistance(_, _, _, _)
SortByDistance(H, c, enemies, n) ==
    IF n = 0 THEN << >>
    ELSE InsertByDistance(H, c, SortByDistance(H, c, enemies, n - 1), enemies[n])

RECURSIVE ChainDamage(_, _, _, _, _, _)
ChainDamage(Hin, c, sortedEnemies, i, chainCount, baseDamage) ==
    IF ~(i < chainCount /\ i < Len(sortedEnemies)) THEN Hin
    ELSE
      CHOOSE out \in
        { ChainDamage(
            log(td.H, "ability_chain",
                [caster |-> c, target |-> sortedEnemies[i + 1],
                 chainIndex |-> i + 1, damage |-> td.ret]),
            c, sortedEnemies, i + 1, chainCount, baseDamage)
          : td \in {takeDamage(Hin, sortedEnemies[i + 1],
                               Num((baseDamage * (10 - 2 * i)) \div 10),
                               "magic")} } : TRUE

RECURSIVE MultiHit(_, _, _, _, _, _)
MultiHit(Hin, c, enemies, hit, i, baseDamage) ==
    CHOOSE out \in
      { IF hit >= abilityOf(U(H, c)).hits THEN H
        ELSE IF i > Len(enemies)
        THEN MultiHit(H, c, enemies, hit + 1, 1, baseDamage)
        ELSE IF isAlive(H, enemies[i]) /\ getDistanceTo(H, c, enemies[i]) <= 1
        THEN CHOOSE hitOut \in
               { MultiHit(
                   log(td.H, "ability_hit",
                       [caster |-> c, target |-> enemies[i],
                        hitNumber |-> hit + 1, damage |-> td.ret]),
                   c, enemies, hit, i + 1, baseDamage)
                 : td \in {takeDamage(H, enemies[i], Num(baseDamage),
                                      "physical")} } : TRUE
        ELSE MultiHit(H, c, enemies, hit, i + 1, baseDamage)
        : H \in {Hin} } : TRUE

(* castAbility: `if (ability.damage)`, on every living enemy or on the     *)
(* target                                                                  *)
AbilityDamage(Hin, c, t, enemies, baseDamage) ==
    CHOOSE out \in
      { LET ability == abilityOf(U(H, c))
        IN  IF ability.damage = 0 THEN H
            ELSE IF ability.aoe
                 THEN AoeDamage(H, c, enemies, 1, baseDamage)
                 ELSE AoeDamage(H, c, <<t>>, 1, baseDamage)
        : H \in {Hin} } : TRUE

(* castAbility: `if (ability.damageMultiplier)`,                           *)
(* caster.attack * damageMultiplier * spellPowerMultiplier                 *)
AbilityDamageMultiplier(Hin, c, t) ==
    CHOOSE out \in
      { LET ability == abilityOf(U(H, c))
            a == unitAttack(H, c)
            damage == IF a.nan THEN NaN
                      ELSE Num((a.v * ability.damageMultiplier
                                    * (100 + B(H, c).spellPower)) \div 1000)
        IN  IF ability.damageMultiplier = 0 THEN H
            ELSE CHOOSE hitOut \in
                   { log(td.H, "ability_damage",
                         [caster |-> c, target |-> t, damage |-> td.ret])
                     : td \in {takeDamage(H, t, damage, "physical")} } : TRUE
        : H \in {Hin} } : TRUE

(* castAbility: `if (ability.armorBonus)` *)
AbilityArmorBonus(Hin, c) ==
    CHOOSE out \in
      { LET ability == abilityOf(U(H, c))
        IN  IF ability.armorBonus = 0 THEN H
            ELSE log([H EXCEPT !.buffs[U(H, c).buffs].armorBonus =
                                   @ + ability.armorBonus],
                     "ability_buff", [caster |-> c])
        : H \in {Hin} } : TRUE

(* castAbility: `if (ability.attackBonus && ability.aoe)` *)
AbilityAttackBonus(Hin, c) ==
    CHOOSE out \in
      { LET ability == abilityOf(U(H, c))
            allies == IF U(H, c).ownerId = "player" THEN aliveOf(H, H.pl)
                      ELSE aliveOf(H, H.en)
        IN  IF ability.attackBonus # 0 /\ ability.aoe
            THEN log(BuffAllies(H, allies, 1, ability.attackBonus),
                     "ability_buff", [caster |-> c])
            ELSE H
        : H \in {Hin} } : TRUE

(* castAbility: `if (ability.chainTargets && ability.damage)` *)
AbilityChain(Hin, c, enemies, baseDamage) ==
    CHOOSE out \in
      { LET ability == abilityOf(U(H, c))
        IN  IF ability.chainTargets # 0 /\ ability.damage # 0
            THEN ChainDamage(H, c, SortByDistance(H, c, enemies, Len(enemies)),
                             0, Min(ability.chainTargets, Len(enemies)),
                             baseDamage)
            ELSE H
        : H \in {Hin} } : TRUE

(* castAbility: `if (ability.hits && ability.damage && ability.aoe)` *)
AbilityHits(Hin, c, enemies, baseDamage) ==
    CHOOSE out \in
      { LET ability == abilityOf(U(H, c))
        IN  IF ability.hits # 0 /\ ability.damage # 0 /\ ability.aoe
            THEN MultiHit(H, c, enemies, 0, 1, baseDamage)
            ELSE H
        : H \in {Hin} } : TRUE

(* castAbility(caster, target) *)
castAbility(Hin, c, t) ==
    CHOOSE out \in
      { LET ability == abilityOf(U(H, c))
        IN
        IF ~ability.present THEN H
        ELSE
          CHOOSE castOut \in
            { AbilityHits(
                AbilityChain(
                  AbilityAttackBonus(
                    AbilityArmorBonus(
                      AbilityDamageMultiplier(
                        AbilityDamage(H0, c, t, enemies, baseDamage), c, t),
                      c),
                    c),
                  c, enemies, baseDamage),
                c, enemies, baseDamage)
              : H0 \in {[H EXCEPT !.units[c].currentMana = 0,
                                  !.units[c].state = "casting"]},
                enemies \in {IF U(H, c).ownerId = "player"
                             THEN aliveOf(H, H.en) ELSE aliveOf(H, H.pl)},
                baseDamage \in {(ability.damage * (100 + B(H, c).spellPower))
                                \div 100} } : TRUE
        : H \in {Hin} } : TRUE

(* The outcomes of the critical-strike roll Math.random() * 100 <          *)
(* critChance, taken only when critChance > 0.                             *)
CritOutcomes(critChance) ==
    IF critChance <= 0 THEN {FALSE}
    ELSE IF critChance >= 100 THEN {TRUE}
    ELSE {TRUE, FALSE}

(* the same casting the ability after every attack, whatever the mana *)
AttackLogged_alwaysCasts(Hin, a, d, isCrit, td1, td2) ==
    CHOOSE out \in
      { castAbility(
          log(H, "attack",
              [attacker |-> a, defender |-> d,
               physicalDamage |-> td1.ret, magicDamage |-> td2.ret,
               isCrit |-> isCrit,
               defenderHp |-> U(H, d).currentHp,
               defenderDied |-> ~isAlive(H, d)]),
          a, d)
        : H \in {Hin} } : TRUE

(* attack, from the log entry on: the entry, then the ability when the     *)
(* attacker's mana is full.  td1 and td2 are what the two takeDamage calls *)
(* returned, H the heap after attacker.gainMana.                           *)
AttackLogged(Hin, a, d, isCrit, td1, td2) ==
    CHOOSE out \in
      { IF U(H, a).currentMana >= U(H, a).maxMana /\ abilityOf(U(H, a)).present
        THEN castAbility(
               log(H, "attack",
                   [attacker |-> a, defender |-> d,
                    physicalDamage |-> td1.ret, magicDamage |-> td2.ret,
                    isCrit |-> isCrit,
                    defenderHp |-> U(H, d).currentHp,
                    defenderDied |-> ~isAlive(H, d)]),
               a, d)
        ELSE log(H, "attack",
                 [attacker |-> a, defender |-> d,
                  physicalDamage |-> td1.ret, magicDamage |-> td2.ret,
                  isCrit |-> isCrit,
                  defenderHp |-> U(H, d).currentHp,
                  defenderDied |-> ~isAlive(H, d)])
        : H \in {Hin} } : TRUE

(* attack, from the magic damage on; td1 is what the physical takeDamage   *)
(* returned                                                                *)
AttackMagic(td1In, a, d, isCrit) ==
    CHOOSE out \in
      { CHOOSE magicOut \in
          { AttackLogged(gainMana(td2.H, a, MANA_PER_ATTACK), a, d, isCrit,
                         td1, td2)
            : td2 \in {IF B(td1.H, a).magicDamage > 0
                       THEN takeDamage(td1.H, d, Num(B(td1.H, a).magicDamage),
                                       "magic")
                       ELSE [H |-> td1.H, ret |-> Num(0)]} } : TRUE
        : td1 \in {td1In} } : TRUE

(* attack(attacker, defender): the set of heaps it can produce, one per    *)
(* outcome of the critical-strike roll.                                    *)
attack(Hin, a, d) ==
    UNION
      { IF ~canAct(H, a) \/ ~isAlive(H, d) THEN {H}
        ELSE
          { LET base == unitAttack(H, a)
                damage == IF isCrit
                          THEN IF base.nan THEN NaN
                               ELSE Num((base.v * (150 + B(H, a).critDamage))
                                        \div 100)
                          ELSE base
            IN  AttackMagic(takeDamage(H, d, damage, "physical"), a, d, isCrit)
            : isCrit \in CritOutcomes(B(H, a).critChance) }
        : H \in {Hin} }

(* countTraits: the traits in the order in which they were first seen and  *)
(* their counts; `counted` holds the keys unit.id_traitId.                 *)
RECURSIVE CountTraits(_, _, _, _, _)
CountTraits(H, us, i, j, accIn) ==
    CHOOSE out \in
      { IF i > Len(us) THEN acc
        ELSE IF ~isAlive(H, us[i]) \/ j > Len(traitsOf(U(H, us[i])))
             THEN CountTraits(H, us, i + 1, 1, acc)
             ELSE
               LET traitId == traitsOf(U(H, us[i]))[j]
                   key == <<us[i], traitId>>
                   seen == \E k \in 1..Len(acc.order) : acc.order[k] = traitId
                   a1 == IF seen THEN acc
                         ELSE [acc EXCEPT !.order = Append(@, traitId),
                                          !.counts = Append(@, 0)]
                   idx == CHOOSE k \in 1..Len(a1.order) : a1.order[k] = traitId
                   a2 == IF key \in a1.counted THEN a1
                         ELSE [a1 EXCEPT !.counts[idx] = @ + 1,
                                         !.counted = @ \cup {key}]
               IN  CountTraits(H, us, i, j + 1, a2)
        : acc \in {accIn} } : TRUE

countTraits(H, us) ==
    CountTraits(H, us, 1, 1, [order |-> << >>, counts |-> << >>, counted |-> {}])

bonusMapping ==
    [armor |-> "armorBonus", attackBonus |-> "attackBonus",
     spellPower |-> "spellPower", manaRegen |-> "manaRegen",
     critChance |-> "critChance", critDamage |-> "critDamage",
     hpBonus |-> "hpBonus", damageReduction |-> "damageReduction",
     attackSpeedBonus |-> "attackSpeedBonus", magicDamage |-> "magicDamage",
     magicResist |-> "magicResistBonus"]

(* applyBonusToUnit(unit, bonus) *)
applyBonusToUnit(Hin, r, bonus) ==
    CHOOSE out \in
      { LET b == B(H, r)
            nb == [k \in DOMAIN b |->
                     LET from == {bk \in (DOMAIN bonus) \cap (DOMAIN bonusMapping) :
                                     bonusMapping[bk] = k}
                     IN  IF from = {} THEN b[k]
                         ELSE b[k] + bonus[CHOOSE bk \in from : TRUE]]
            H1 == [H EXCEPT !.buffs[U(H, r).buffs] = nb]
        IN  IF "range" \in DOMAIN bonus
            THEN [H1 EXCEPT !.units[r].range = @ + bonus.range]
            ELSE H1
        : H \in {Hin} } : TRUE

RECURSIVE ResetAllBuffs(_, _, _)
ResetAllBuffs(H, us, i) ==
    IF i > Len(us) THEN H ELSE ResetAllBuffs(resetBuffs(H, us[i]), us, i + 1)

RECURSIVE ApplyToUnits(_, _, _, _, _)
ApplyToUnits(Hin, us, i, traitId, bonus) ==
    CHOOSE out \in
      { IF i > Len(us) THEN H
        ELSE LET has == \E k \in 1..Len(traitsOf(U(H, us[i]))) :
                            traitsOf(U(H, us[i]))[k] = traitId
             IN  ApplyToUnits(IF has /\ isAlive(H, us[i])
                              THEN applyBonusToUnit(H, us[i], bonus) ELSE H,
                              us, i + 1, traitId, bonus)
        : H \in {Hin} } : TRUE

RECURSIVE ApplyTraits(_, _, _, _)
ApplyTraits(Hin, us, tcIn, k) ==
    CHOOSE out \in
      { IF k > Len(tc.order) THEN H
        ELSE LET traitBonus == getTraitBonus(tc.order[k], tc.counts[k])
             IN  IF traitBonus.threshold = 0 THEN ApplyTraits(H, us, tc, k + 1)
                 ELSE ApplyTraits(
                        log(ApplyToUnits(H, us, 1, tc.order[k], traitBonus.bonus),
                            "trait_active",
                            [trait |-> tc.order[k], count |-> tc.counts[k],
                             threshold |-> traitBonus.threshold]),
                        us, tc, k + 1)
        : H \in {Hin}, tc \in {tcIn} } : TRUE

(* applyTraitBonuses(units) *)
applyTraitBonuses(Hin, us) ==
    CHOOSE out \in
      { ApplyTraits(H1, us, countTraits(H1, us), 1)
        : H1 \in {ResetAllBuffs(Hin, us, 1)} } : TRUE

RECURSIVE ResetAllForCombat(_, _, _)
ResetAllForCombat(H, us, i) ==
    IF i > Len(us) THEN H
    ELSE ResetAllForCombat(resetForCombat(H, us[i]), us, i + 1)

(* initializeUnits() *)
initializeUnits(Hin) ==
    CHOOSE out \in
      { ResetAllForCombat(H, H.pl \o H.en, 1) : H \in {Hin} } : TRUE

(* updateOccupiedPositions() *)
updateOccupiedPositions(Hin) ==
    CHOOSE out \in
      { [H EXCEPT !.occupied =
            { U(H, (H.pl \o H.en)[i]).pos :
                i \in { k \in 1..Len(H.pl \o H.en) :
                          isAlive(H, (H.pl \o H.en)[k])
                          /\ isOnBoard(H, (H.pl \o H.en)[k]) } }]
        : H \in {Hin} } : TRUE

NewCombatResult ==
    [winner |-> "null", damageToPlayer |-> 0, damageToEnemy |-> 0,
     survivingPlayerUnits |-> << >>, survivingEnemyUnits |-> << >>,
     totalTicks |-> 0]

RECURSIVE SetOwner(_, _, _, _)
SetOwner(H, us, i, owner) ==
    IF i > Len(us) THEN H
    ELSE SetOwner([H EXCEPT !.units[us[i]].ownerId = owner], us, i + 1, owner)

(* The first lines of start() and runSync(): playerUnits.map(unit =>       *)
(* unit.clone()), the same for the enemies, and the owner tags.  The clone *)
(* of the i-th unit passed in is allocated at reference n + i.             *)
CloneRosters(Hin, pIn, eIn) ==
    CHOOSE out \in
      { LET n == Len(H.units)
            all == pIn \o eIn
            pl == [i \in 1..Len(pIn) |-> clone(pIn[i], n + i)]
            en == [i \in 1..Len(eIn) |-> clone(eIn[i], n + Len(pIn) + i)]
        IN  SetOwner(
              SetOwner(
                [H EXCEPT
                   !.units = @ \o [i \in 1..Len(all) |->
                                     ClonedUnit(H.units[all[i]],
                                                cloneBuffs(H.units[all[i]].buffs,
                                                           n + i))],
                   !.buffs = @ \o [i \in 1..Len(all) |->
                                     H.buffs[H.units[all[i]].buffs]],
                   !.pl = pl,
                   !.en = en],
                pl, 1, "player"),
              en, 1, "enemy")
        : H \in {Hin} } : TRUE

(* start() and runSync() once the trait bonuses are applied: build the     *)
(* occupied cache, log combat_start                                        *)
LogCombatStart(Hin) ==
    CHOOSE out \in
      { log(updateOccupiedPositions(H), "combat_start",
            [playerUnitCount |-> Len(H.pl), enemyUnitCount |-> Len(H.en)])
        : H \in {Hin} } : TRUE

(* the same with one applyTraitBonuses call for the two rosters together   *)
ResetAndBuff_bothSides(Hin) ==
    CHOOSE out \in
      { applyTraitBonuses(H, H.pl \o H.en)
        : H \in {initializeUnits([Hin EXCEPT !.isRunning = TRUE, !.tick = 0,
                                             !.log = << >>,
                                             !.result = NewCombatResult])}
      } : TRUE

(* start() and runSync() once the rosters are cloned: reset the combat     *)
(* state, initialize the units, apply the trait bonuses of both sides      *)
ResetAndBuff(Hin) ==
    CHOOSE out \in
      { applyTraitBonuses(applyTraitBonuses(H, H.pl), H.en)
        : H \in {initializeUnits([Hin EXCEPT !.isRunning = TRUE, !.tick = 0,
                                             !.log = << >>,
                                             !.result = NewCombatResult])}
      } : TRUE

(* The common first part of start() and runSync() *)
Prepare(H, pIn, eIn) == LogCombatStart(ResetAndBuff(CloneRosters(H, pIn, eIn)))

(* a stop() that leaves the interval timer armed *)
stop_timerLeft(H) == [H EXCEPT !.isRunning = FALSE]

(* stop() *)
stop(H) == [H EXCEPT !.isRunning = FALSE, !.tickInterval = FALSE]

(* isOver() *)
isOver(H) == Len(aliveOf(H, H.pl)) = 0 \/ Len(aliveOf(H, H.en)) = 0

RECURSIVE SumStars(_, _, _)
SumStars(H, us, i) ==
    IF i > Len(us) THEN 0 ELSE U(H, us[i]).starLevel + SumStars(H, us, i + 1)

(* a calculateDamage that charges one point per survivor *)
calculateDamage_perUnit(H, survivingUnits) == 2 + Len(survivingUnits)

(* calculateDamage(survivingUnits) *)
calculateDamage(H, survivingUnits) == 2 + SumStars(H, survivingUnits, 1)

(* endCombat(winner, damageToLoser) *)
endCombat(Hin, winner, damageToLoser) ==
    CHOOSE out \in
      { LET H2 == [H1 EXCEPT
                    !.result.winner = winner,
                    !.result.totalTicks = H1.tick,
                    !.result.survivingPlayerUnits = aliveOf(H1, H1.pl),
                    !.result.survivingEnemyUnits = aliveOf(H1, H1.en),
                    !.result.damageToPlayer =
                        IF winner = "enemy" THEN damageToLoser ELSE @,
                    !.result.damageToEnemy =
                        IF winner = "player" THEN damageToLoser ELSE @]
            H3 == log(H2, "combat_end",
                      [winner |-> winner, damageToLoser |-> damageToLoser,
                       totalTicks |-> H1.tick])
        IN  IF H1.onCombatEnd THEN [H3 EXCEPT !.resolved = @ + 1] ELSE H3
        : H1 \in {stop(Hin)} } : TRUE

(* determinWinner() *)
determinWinner(Hin) ==
    CHOOSE out \in
      { LET alivePlayerUnits == aliveOf(H, H.pl)
            aliveEnemyUnits == aliveOf(H, H.en)
        IN  IF Len(alivePlayerUnits) = 0 /\ Len(aliveEnemyUnits) = 0
            THEN endCombat(H, "draw", 0)
            ELSE IF Len(alivePlayerUnits) = 0
            THEN endCombat(H, "enemy", calculateDamage(H, aliveEnemyUnits))
            ELSE endCombat(H, "player", calculateDamage(H, alivePlayerUnits))
        : H \in {Hin} } : TRUE

(* getEffectiveRange(unit) *)
getEffectiveRange(H, r) == U(H, r).range

(* the same part of the loop body attacking whatever the cooldown *)
ProcessAction_noCooldown(Hin, r) ==
    UNION
      { LET t == U(H, r).target
        IN  IF getDistanceTo(H, r, t) <= getEffectiveRange(H, r)
            THEN { [A EXCEPT !.units[r].attackCooldown =
                                 CooldownTicks(effectiveAttackSpeed(A, r)),
                             !.units[r].state = "attacking"]
                   : A \in attack(H, r, t) }
            ELSE { moveToward(H, r, t) }
        : H \in {Hin} }

(* tick(), the loop body from the range check on: attack when the cooldown *)
(* is over, else idle; out of range, move toward the target                *)
ProcessAction(Hin, r) ==
    UNION
      { LET t == U(H, r).target
        IN  IF getDistanceTo(H, r, t) <= getEffectiveRange(H, r)
            THEN IF U(H, r).attackCooldown <= 0
                 THEN { [A EXCEPT !.units[r].attackCooldown =
                                      CooldownTicks(effectiveAttackSpeed(A, r)),
                                  !.units[r].state = "attacking"]
                        : A \in attack(H, r, t) }
                 ELSE { [H EXCEPT !.units[r].state = "idle"] }
            ELSE { moveToward(H, r, t) }
        : H \in {Hin} }

(* tick(), the loop body from `if (!unit.target) continue` on: the         *)
(* cooldown runs down by one tick                                          *)
ProcessCooldown(Hin, r) ==
    UNION
      { IF U(H, r).target = NullRef THEN {H}
        ELSE ProcessAction(
               IF U(H, r).attackCooldown > 0
               THEN [H EXCEPT !.units[r].attackCooldown = @ - 1]
               ELSE H,
               r)
        : H \in {Hin} }

(* the same part of the loop body without `if (!unit.canAct) continue` *)
ProcessTargeting_stunnedActs(Hin, r, alivePlayerUnits, aliveEnemyUnits) ==
    UNION
      { LET enemies == IF U(H, r).ownerId = "player" THEN aliveEnemyUnits
                       ELSE alivePlayerUnits
        IN  ProcessCooldown(
              IF U(H, r).target = NullRef
              THEN findTarget(H, r, enemies)
              ELSE IF ~isAlive(H, U(H, r).target)
                   THEN findTarget(H, r, enemies)
                   ELSE H,
              r)
        : H \in {Hin} }

(* the same part of the loop body looking for a target in every tick *)
ProcessTargeting_everyTick(Hin, r, alivePlayerUnits, aliveEnemyUnits) ==
    UNION
      { LET enemies == IF U(H, r).ownerId = "player" THEN aliveEnemyUnits
                       ELSE alivePlayerUnits
        IN  IF ~canAct(H, r) THEN {H}
            ELSE ProcessCooldown(findTarget(H, r, enemies), r)
        : H \in {Hin} }

(* tick(), the loop body from `if (!unit.canAct) continue` on: a unit      *)
(* without a living target looks for one among the enemies that were alive *)
(* when the tick began                                                     *)
ProcessTargeting(Hin, r, alivePlayerUnits, aliveEnemyUnits) ==
    UNION
      { LET enemies == IF U(H, r).ownerId = "player" THEN aliveEnemyUnits
                       ELSE alivePlayerUnits
        IN  IF ~canAct(H, r) THEN {H}
            ELSE ProcessCooldown(
                   IF U(H, r).target = NullRef
                   THEN findTarget(H, r, enemies)
                   ELSE IF ~isAlive(H, U(H, r).target)
                        THEN findTarget(H, r, enemies)
                        ELSE H,
                   r)
        : H \in {Hin} }

(* The body of the loop of tick() for one unit: the set of states it can   *)
(* produce.  alivePlayerUnits and aliveEnemyUnits were taken when the tick *)
(* began.                                                                  *)
ProcessUnit(Hin, r, alivePlayerUnits, aliveEnemyUnits) ==
    UNION
      { IF ~isAlive(H, r) THEN {H}
        ELSE ProcessTargeting(updateStatusEffects(H, r), r,
                              alivePlayerUnits, aliveEnemyUnits)
        : H \in {Hin} }

(* shuffleArray and the loop of tick(): Fisher-Yates can produce every     *)
(* order of the units.  frontier holds the pairs <<units processed so far, *)
(* state>>; each round lets every unit not yet processed go next.          *)
RECURSIVE ProcessShuffled(_, _, _, _, _)
ProcessShuffled(frontier, todo, allUnits, alivePlayerUnits, aliveEnemyUnits) ==
    IF todo = 0 THEN { p[2] : p \in frontier }
    ELSE ProcessShuffled(
           UNION { UNION { { <<p[1] \cup {r}, H2>> :
                               H2 \in ProcessUnit(p[2], r, alivePlayerUnits,
                                                  aliveEnemyUnits) }
                           : r \in allUnits \ p[1] }
                   : p \in frontier },
           todo - 1, allUnits, alivePlayerUnits, aliveEnemyUnits)

(* tick() from `this.tickCount++` on; H1 is the state with the counter     *)
(* advanced.  A tick that went through the loop ends with the call of the  *)
(* tick callback, when one is stored.                                      *)
TickRunning(H1, alivePlayerUnits, aliveEnemyUnits) ==
    IF isOver(H1) THEN { determinWinner(H1) }
    ELSE { IF H2.onTick THEN [H2 EXCEPT !.observed = @ + 1] ELSE H2
           : H2 \in ProcessShuffled(
               { << {}, updateOccupiedPositions(H1) >> },
               Len(alivePlayerUnits \o aliveEnemyUnits),
               { (alivePlayerUnits \o aliveEnemyUnits)[i] :
                   i \in 1..Len(alivePlayerUnits \o aliveEnemyUnits) },
               alivePlayerUnits, aliveEnemyUnits) }

(* tick() without its first line `if (!this.isRunning) return` *)
tick_unguarded(Hin) ==
    UNION
      { UNION { TickRunning(H1, ap, ae)
                : ap \in {aliveOf(H1, H1.pl)}, ae \in {aliveOf(H1, H1.en)} }
        : H1 \in {[Hin EXCEPT !.tick = @ + 1]} }

(* tick(): the set of states it can leave *)
tick(Hin) ==
    UNION
      { IF ~H.isRunning THEN {H}
        ELSE UNION
               { UNION { TickRunning(H1, ap, ae)
                         : ap \in {aliveOf(H1, H1.pl)},
                           ae \in {aliveOf(H1, H1.en)} }
                 : H1 \in {[H EXCEPT !.tick = @ + 1]} }
        : H \in {Hin} }

(* runSync from its loop on: the set of states it can return in, one per   *)
(* sequence of random draws.  Hs holds the states at the loop test.        *)
RECURSIVE runSyncLoop(_, _)
runSyncLoop(Hs, cap) ==
    IF \A H \in Hs : ~(H.isRunning /\ H.tick < cap)
    THEN { IF H.tick >= cap /\ H.isRunning THEN endCombat(H, "draw", 0) ELSE H
           : H \in Hs }
    ELSE runSyncLoop(
           UNION { IF H.isRunning /\ H.tick < cap THEN tick(H) ELSE {H}
                   : H \in Hs },
           cap)

(* the sum of two JavaScript numbers *)
Plus(x, y) == IF x.nan \/ y.nan THEN NaN ELSE Num(x.v + y.v)

(* the damage the log records for the attacks of unit r: the sum of        *)
(* physicalDamage and magicDamage over the "attack" entries from i on      *)
RECURSIVE damageDealt(_, _, _)
damageDealt(entries, i, r) ==
    IF i > Len(entries) THEN Num(0)
    ELSE IF entries[i].type = "attack"
         THEN IF entries[i].data.attacker = r
              THEN Plus(Plus(entries[i].data.physicalDamage,
                             entries[i].data.magicDamage),
                        damageDealt(entries, i + 1, r))
              ELSE damageDealt(entries, i + 1, r)
         ELSE damageDealt(entries, i + 1, r)

----------------------------------------------------------------------------
(* The callers' rosters *)

(* A unit as a caller holds it: built from its template, placed, and       *)
(* either fresh or carrying the traces of earlier use (buffs applied by a  *)
(* planning view or a boss round, lost hit points, mana, a state).         *)
PlayerChoices ==
    { [templateId |-> "squire", starLevel |-> 1, pos |-> <<3, 4>>, used |-> FALSE],
      [templateId |-> "knight", starLevel |-> 2, pos |-> <<4, 4>>, used |-> TRUE],
      [templateId |-> "stoneGolem", starLevel |-> 1, pos |-> NoPos, used |-> FALSE] }

EnemyChoices ==
    { [templateId |-> "squire", starLevel |-> 2, pos |-> <<3, 3>>, used |-> TRUE],
      [templateId |-> "apprentice", starLevel |-> 1, pos |-> <<5, 1>>, used |-> FALSE],
      [templateId |-> "squire", starLevel |-> 1, pos |-> NoPos, used |-> FALSE] }

UsedBuffs == [ZeroBuffs EXCEPT !.hpBonus = 200, !.damageReduction = 10,
                               !.attackBonus = 30]

InputUnit(d, b) ==
    LET u == [NewUnit(d.templateId, d.starLevel, b) EXCEPT !.pos = d.pos]
    IN  IF d.used
        THEN [u EXCEPT !.currentHp = Num(300), !.currentMana = 40,
                       !.state = "moving", !.attackCooldown = 3]
        ELSE u

InputBuffs(d) == IF d.used THEN UsedBuffs ELSE ZeroBuffs

(* the rosters of at most MaxRoster distinct choices *)
Rosters(C) ==
    UNION { { q \in [1..k -> C] : \A i, j \in 1..k : i # j => q[i] # q[j] }
            : k \in 0..MaxRoster }

----------------------------------------------------------------------------
(* State machine of one Combat instance and its caller *)

(* no GameState object is followed *)
NoGame == [present |-> FALSE]

(* no call of tick() is being followed *)
NoFrame == [active |-> FALSE, todo |-> {}, alivePlayerUnits |-> << >>,
            aliveEnemyUnits |-> << >>, unit |-> 0]

(* no Game controller is followed *)
NoController == [present |-> FALSE]

(* no timer of the environment is followed *)
NoTimers == [tick |-> 0, prep |-> 0, nextRound |-> 0]

NoArg == [amount |-> Num(0), type |-> "none"]
NoOp == [op |-> "none", arg |-> NoArg, ret |-> Num(0), n |-> 0]

(* new Combat(), with the rosters the caller is going to pass *)
Init ==
    \E pr \in Rosters(PlayerChoices), er \in Rosters(EnemyChoices) :
      LET all == pr \o er
      IN  /\ units = [i \in 1..Len(all) |-> InputUnit(all[i], i)]
          /\ buffs = [i \in 1..Len(all) |-> InputBuffs(all[i])]
          /\ inPlayer = [i \in 1..Len(pr) |-> i]
          /\ inEnemy = [i \in 1..Len(er) |-> Len(pr) + i]
          /\ input0 = [units |-> [i \in 1..Len(all) |-> InputUnit(all[i], i)],
                       buffs |-> [i \in 1..Len(all) |-> InputBuffs(all[i])]]
          /\ playerUnits = << >>
          /\ enemyUnits = << >>
          /\ isRunning = FALSE
          /\ tickCount = 0
          /\ tickInterval = FALSE
          /\ result = NewCombatResult
          /\ combatLog = << >>
          /\ occupied = {}
          /\ onCombatEnd = FALSE
          /\ onTick = FALSE
          /\ observed = 0
          /\ resolved = 0
          /\ mode = "new"
          /\ pc = "idle"
          /\ maxTicks = 0
          /\ tickCalls = 0
          /\ lastOp = NoOp
          /\ frame = NoFrame
          /\ gameState = NoGame
          /\ game = NoController
          /\ timers = NoTimers

(* the owner of the engine stores a tick callback before the combat, as    *)
(* Game.startCombat does                                                   *)
SetOnTick ==
    /\ mode = "new"
    /\ ~onTick
    /\ onTick' = TRUE
    /\ UNCHANGED <<units, buffs, inPlayer, inEnemy, input0, playerUnits,
                   enemyUnits, isRunning, tickCount, tickInterval, result,
                   combatLog, occupied, onCombatEnd, observed, resolved, mode,
                   pc, maxTicks, tickCalls, lastOp, frame, gameState, game, timers>>

(* a start() that goes to the timer without initializeUnits and           *)
(* applyTraitBonuses                                                       *)
Start_unprepared ==
    /\ mode = "new"
    /\ \E H \in {LogCombatStart(CloneRosters(Cur, inPlayer, inEnemy))} :
         Becomes([H EXCEPT !.onCombatEnd = TRUE, !.tickInterval = TRUE])
    /\ mode' = "realtime"
    /\ UNCHANGED <<inPlayer, inEnemy, input0, pc, maxTicks, tickCalls, lastOp, frame, gameState, game, timers>>

(* start(playerUnits, enemyUnits): everything up to setInterval *)
Start ==
    /\ mode = "new"
    /\ \E H \in {Prepare(Cur, inPlayer, inEnemy)} :
         Becomes([H EXCEPT !.onCombatEnd = TRUE, !.tickInterval = TRUE])
    /\ mode' = "realtime"
    /\ UNCHANGED <<inPlayer, inEnemy, input0, pc, maxTicks, tickCalls, lastOp, frame, gameState, game, timers>>

(* the interval timer fires and calls tick() *)
TimerTick ==
    /\ mode = "realtime"
    /\ tickInterval
    /\ tickCount < MaxRealTicks
    /\ \E H \in tick(Cur) : Becomes(H)
    /\ UNCHANGED <<inPlayer, inEnemy, input0, mode, pc, maxTicks, tickCalls,
                   lastOp, frame, gameState, game, timers>>

(* stop(), called by the owner of a running real-time combat *)
Stop ==
    /\ mode = "realtime"
    /\ isRunning
    /\ \E H \in {stop(Cur)} : Becomes(H)
    /\ UNCHANGED <<inPlayer, inEnemy, input0, mode, pc, maxTicks, tickCalls,
                   lastOp, frame, gameState, game, timers>>

(* runSync(playerUnits, enemyUnits, maxTicks): up to the loop *)
RunSync ==
    \E mt \in 0..MaxTicksArg :
      /\ mode = "new"
      /\ \E H \in {Prepare(Cur, inPlayer, inEnemy)} : Becomes(H)
      /\ mode' = "sync"
      /\ pc' = "loop"
      /\ maxTicks' = mt
      /\ UNCHANGED <<inPlayer, inEnemy, input0, tickCalls, lastOp, frame, gameState, game, timers>>

(* the loop of runSync with the test tickCount <= maxTicks *)
SyncTick_pastCap ==
    /\ mode = "sync"
    /\ pc = "loop"
    /\ isRunning /\ tickCount <= maxTicks
    /\ \E H \in tick(Cur) : Becomes(H)
    /\ UNCHANGED <<inPlayer, inEnemy, input0, mode, pc, maxTicks, tickCalls,
                   lastOp, frame, gameState, game, timers>>

(* one iteration of the loop of runSync *)
SyncTick ==
    /\ mode = "sync"
    /\ pc = "loop"
    /\ isRunning /\ tickCount < maxTicks
    /\ \E H \in tick(Cur) : Becomes(H)
    /\ UNCHANGED <<inPlayer, inEnemy, input0, mode, pc, maxTicks, tickCalls,
                   lastOp, frame, gameState, game, timers>>

(* runSync after its loop: the forced end and the return *)
SyncReturn ==
    /\ mode = "sync"
    /\ pc = "loop"
    /\ ~(isRunning /\ tickCount < maxTicks)
    /\ \E H \in {IF tickCount >= maxTicks /\ isRunning
                 THEN endCombat(Cur, "draw", 0) ELSE Cur} : Becomes(H)
    /\ pc' = "returned"
    /\ UNCHANGED <<inPlayer, inEnemy, input0, mode, maxTicks, tickCalls, lastOp, frame, gameState, game, timers>>

(* tick() called on an engine that is no longer running: a timer callback  *)
(* that was already queued, or any other caller                            *)
LateTick ==
    /\ mode \in {"realtime", "sync"}
    /\ mode = "sync" => pc = "returned"
    /\ ~isRunning
    /\ tickCalls < MaxLateTicks
    /\ \E H \in tick(Cur) : Becomes(H)
    /\ tickCalls' = tickCalls + 1
    /\ UNCHANGED <<inPlayer, inEnemy, input0, mode, pc, maxTicks, lastOp, frame, gameState, game, timers>>

Next ==
    \/ SetOnTick
    \/ Start
    \/ TimerTick
    \/ Stop
    \/ RunSync
    \/ SyncTick
    \/ SyncReturn
    \/ LateTick

Spec == Init /\ [][Next]_vars

----------------------------------------------------------------------------
(* State machine of one Unit whose methods are called directly *)

UnitChoices ==
    { [templateId |-> "squire", starLevel |-> 1, pos |-> <<3, 4>>, used |-> FALSE],
      [templateId |-> "knight", starLevel |-> 2, pos |-> <<4, 4>>, used |-> TRUE] }

DamageAmounts == {Num(0), Num(1), Num(400), Num(2000), NaN}
HealAmounts == {100}

(* new Unit(...) followed by resetForCombat(), as at the start of a combat *)
InitUnit ==
    \E d \in UnitChoices :
      /\ units = <<InputUnit(d, 1)>>
      /\ buffs = <<InputBuffs(d)>>
      /\ inPlayer = <<1>>
      /\ inEnemy = << >>
      /\ input0 = [units |-> <<InputUnit(d, 1)>>, buffs |-> <<InputBuffs(d)>>]
      /\ playerUnits = << >>
      /\ enemyUnits = << >>
      /\ isRunning = FALSE
      /\ tickCount = 0
      /\ tickInterval = FALSE
      /\ result = NewCombatResult
      /\ combatLog = << >>
      /\ occupied = {}
      /\ onCombatEnd = FALSE
      /\ onTick = FALSE
      /\ observed = 0
      /\ resolved = 0
      /\ mode = "unit"
      /\ pc = "idle"
      /\ maxTicks = 0
      /\ tickCalls = 0
      /\ lastOp = NoOp
      /\ frame = NoFrame
      /\ gameState = NoGame
      /\ game = NoController
      /\ timers = NoTimers

(* a direct call with the argument arg leaves heap state H, and returned   *)
(* ret                                                                     *)
CalledWith(op, arg, H, ret) ==
    /\ mode = "unit"
    /\ lastOp.n < MaxUnitOps
    /\ Becomes(H)
    /\ lastOp' = [op |-> op, arg |-> arg, ret |-> ret, n |-> lastOp.n + 1]
    /\ UNCHANGED <<inPlayer, inEnemy, input0, mode, pc, maxTicks, tickCalls, frame, gameState, game, timers>>

Called(op, H, ret) == CalledWith(op, NoArg, H, ret)

UTakeDamage ==
    \E amount \in DamageAmounts, type \in {"physical", "magic"} :
      \E td \in {takeDamage(Cur, 1, amount, type)} :
        CalledWith("takeDamage", [amount |-> amount, type |-> type],
                   td.H, td.ret)

UHeal ==
    \E amount \in HealAmounts :
      \E h \in {heal(Cur, 1, amount)} :
        Called("heal", h.H, Num(h.ret))

UGainMana ==
    \E H \in {gainMana(Cur, 1, MANA_PER_ATTACK)} :
      Called("gainMana", H, Num(0))

UApplyStun ==
    \E H \in {applyStun(Cur, 1, 1000)} : Called("applyStun", H, Num(0))

UApplySlow ==
    \E H \in {applySlow(Cur, 1, 300, 3000)} : Called("applySlow", H, Num(0))

UUpdateStatusEffects ==
    \E H \in {updateStatusEffects(Cur, 1)} :
      Called("updateStatusEffects", H, Num(0))

UResetForCombat ==
    \E H \in {resetForCombat(Cur, 1)} : Called("resetForCombat", H, Num(0))

NextUnit ==
    \/ UTakeDamage
    \/ UHeal
    \/ UGainMana
    \/ UApplyStun
    \/ UApplySlow
    \/ UUpdateStatusEffects
    \/ UResetForCombat

SpecUnit == InitUnit /\ [][NextUnit]_vars

----------------------------------------------------------------------------
(* The two threshold lookups, called with a trait and a count *)

TRAIT_THRESHOLDS == <<2, 4>>

(* trait.bonuses[threshold]: NoBonus stands for undefined *)
bonusesAt(traitId, threshold) ==
    LET S == { k \in 1..Len(TRAITS[traitId]) :
                 TRAITS[traitId][k].threshold = threshold }
    IN  IF S = {} THEN NoBonus ELSE TRAITS[traitId][CHOOSE k \in S : TRUE]

(* the loop of _calculateActiveTraits over TRAIT_THRESHOLDS: the last      *)
(* threshold that the count meets and that the trait has a bundle for; 0   *)
(* stands for null                                                         *)
RECURSIVE activeThreshold(_, _, _, _)
activeThreshold(traitId, count, i, found) ==
    IF i > Len(TRAIT_THRESHOLDS) THEN found
    ELSE activeThreshold(
           traitId, count, i + 1,
           IF count >= TRAIT_THRESHOLDS[i]
              /\ bonusesAt(traitId, TRAIT_THRESHOLDS[i]) # NoBonus
           THEN TRAIT_THRESHOLDS[i] ELSE found)

(* TraitSystem._calculateActiveTraits(): this.activeTraits for the         *)
(* traitCounts given, a function from trait ids to counts                  *)
calculateActiveTraits(traitCounts) ==
    { [trait |-> t, count |-> traitCounts[t],
       threshold |-> activeThreshold(t, traitCounts[t], 1, 0),
       bonus |-> bonusesAt(t, activeThreshold(t, traitCounts[t], 1, 0)).bonus]
      : t \in { x \in DOMAIN traitCounts :
                  /\ x \in DOMAIN TRAITS
                  /\ activeThreshold(x, traitCounts[x], 1, 0) # 0 } }

(* a trait id and a count, and nothing called yet *)
InitBonus ==
    \E t \in DOMAIN TRAITS, c \in 0..MaxCount :
      /\ units = << >>
      /\ buffs = << >>
      /\ inPlayer = << >>
      /\ inEnemy = << >>
      /\ input0 = [units |-> << >>, buffs |-> << >>]
      /\ playerUnits = << >>
      /\ enemyUnits = << >>
      /\ isRunning = FALSE
      /\ tickCount = 0
      /\ tickInterval = FALSE
      /\ result = NewCombatResult
      /\ combatLog = << >>
      /\ occupied = {}
      /\ onCombatEnd = FALSE
      /\ onTick = FALSE
      /\ observed = 0
      /\ resolved = 0
      /\ mode = "bonus"
      /\ pc = "idle"
      /\ maxTicks = 0
      /\ tickCalls = 0
      /\ lastOp = [op |-> "none", arg |-> [trait |-> t, count |-> c],
                   ret |-> NoBonus, n |-> 0]
      /\ frame = NoFrame
      /\ gameState = NoGame
      /\ game = NoController
      /\ timers = NoTimers

(* a call with the trait and the count of the state returned ret *)
Looked(op, ret) ==
    /\ lastOp.n < MaxTraitOps
    /\ lastOp' = [op |-> op, arg |-> lastOp.arg, ret |-> ret,
                  n |-> lastOp.n + 1]
    /\ UNCHANGED <<units, buffs, inPlayer, inEnemy, input0, playerUnits,
                   enemyUnits, isRunning, tickCount, tickInterval, result,
                   combatLog, occupied, onCombatEnd, onTick, observed,
                   resolved, mode, pc, maxTicks, tickCalls, frame, gameState, game, timers>>

(* getTraitBonus(traitId, count) *)
BGetTraitBonus ==
    /\ mode = "bonus"
    /\ Looked("getTraitBonus", getTraitBonus(lastOp.arg.trait, lastOp.arg.count))

(* _calculateActiveTraits() with traitCounts = {traitId: count} *)
BCalculateActiveTraits ==
    /\ mode = "bonus"
    /\ Looked("_calculateActiveTraits",
              calculateActiveTraits(
                [x \in {lastOp.arg.trait} |-> lastOp.arg.count]))

NextBonus ==
    \/ BGetTraitBonus
    \/ BCalculateActiveTraits

SpecBonus == InitBonus /\ [][NextBonus]_vars

----------------------------------------------------------------------------
(* The trait computations of the program on one player's units *)

(* the units a player owns: copies of a template are distinct units; a     *)
(* unit without a position is on the bench                                 *)
BoardChoices ==
    { [templateId |-> "squire", onBoard |-> TRUE],
      [templateId |-> "knight", onBoard |-> TRUE],
      [templateId |-> "stoneGolem", onBoard |-> TRUE],
      [templateId |-> "scout", onBoard |-> TRUE],
      [templateId |-> "squire", onBoard |-> FALSE] }

Boards == UNION { [1..k -> BoardChoices] : k \in 0..MaxBoard }

BoardUnit(d, i) ==
    [NewUnit(d.templateId, 1, i) EXCEPT
       !.pos = IF d.onBoard THEN <<(i - 1) % BOARD_COLS, (i - 1) \div BOARD_COLS>>
               ELSE NoPos]

InitBoard ==
    \E board \in Boards :
      /\ units = [i \in 1..Len(board) |-> BoardUnit(board[i], i)]
      /\ buffs = [i \in 1..Len(board) |-> ZeroBuffs]
      /\ inPlayer = [i \in 1..Len(board) |-> i]
      /\ inEnemy = << >>
      /\ input0 = [units |-> [i \in 1..Len(board) |-> BoardUnit(board[i], i)],
                   buffs |-> [i \in 1..Len(board) |-> ZeroBuffs]]
      /\ playerUnits = << >>
      /\ enemyUnits = << >>
      /\ isRunning = FALSE
      /\ tickCount = 0
      /\ tickInterval = FALSE
      /\ result = NewCombatResult
      /\ combatLog = << >>
      /\ occupied = {}
      /\ onCombatEnd = FALSE
      /\ onTick = FALSE
      /\ observed = 0
      /\ resolved = 0
      /\ mode = "board"
      /\ pc = "idle"
      /\ maxTicks = 0
      /\ tickCalls = 0
      /\ lastOp = [op |-> "none", arg |-> NoArg, ret |-> {}, n |-> 0]
      /\ frame = NoFrame
      /\ gameState = NoGame
      /\ game = NoController
      /\ timers = NoTimers

(* GameState.getUnitsOnBoard() *)
getUnitsOnBoard(H, owned) == SelectSeq(owned, LAMBDA r : isOnBoard(H, r))

(* GameState.getActiveTraits(): traitUnits[trait] is the set of the        *)
(* unitId, the template ids, of the board units that carry the trait       *)
getActiveTraits(H, owned) ==
    LET unitsOnBoard == getUnitsOnBoard(H, owned)
        carried(r) == { traitsOf(U(H, r))[k] :
                          k \in 1..Len(traitsOf(U(H, r))) }
        traitUnits(trait) ==
            { U(H, unitsOnBoard[i]).templateId :
                i \in { j \in 1..Len(unitsOnBoard) :
                          trait \in carried(unitsOnBoard[j]) } }
        traitCounts(trait) == Cardinality(traitUnits(trait))
        seen == UNION { carried(unitsOnBoard[i]) : i \in 1..Len(unitsOnBoard) }
    IN  { [trait |-> t, count |-> traitCounts(t),
           threshold |-> getTraitBonus(t, traitCounts(t)).threshold,
           bonus |-> getTraitBonus(t, traitCounts(t)).bonus]
          : t \in { x \in seen :
                      getTraitBonus(x, traitCounts(x)) # NoBonus } }

(* TraitSystem.calculateTraits(units): this.activeTraits afterwards.  The  *)
(* counts add one per living unit on the board and trait it lists.         *)
calculateTraits(H, us) ==
    LET activeUnits ==
            SelectSeq(us, LAMBDA r : isOnBoard(H, r) /\ isAlive(H, r))
        listed(t) ==
            UNION { { <<i, k>> :
                        k \in { j \in 1..Len(traitsOf(U(H, activeUnits[i]))) :
                                  traitsOf(U(H, activeUnits[i]))[j] = t } }
                    : i \in 1..Len(activeUnits) }
        seen == { t \in DOMAIN TRAITS : listed(t) # {} }
    IN  calculateActiveTraits([t \in seen |-> Cardinality(listed(t))])

(* what Combat.applyTraitBonuses(units) activates: a trait_active entry    *)
(* per trait that countTraits counted and getTraitBonus has a bundle for   *)
activatedTraits(H, us) ==
    UNION
      { { [trait |-> tc.order[k], count |-> tc.counts[k],
           threshold |-> getTraitBonus(tc.order[k], tc.counts[k]).threshold,
           bonus |-> getTraitBonus(tc.order[k], tc.counts[k]).bonus]
          : k \in { j \in 1..Len(tc.order) :
                      getTraitBonus(tc.order[j], tc.counts[j]) # NoBonus } }
        : tc \in {countTraits(H, us)} }

(* a call on the player's units leaves the heap and the log as in H and    *)
(* returned ret                                                            *)
Computed(op, H, ret) ==
    /\ mode = "board"
    /\ lastOp.n < MaxTraitOps
    /\ Becomes(H)
    /\ lastOp' = [op |-> op, arg |-> NoArg, ret |-> ret, n |-> lastOp.n + 1]
    /\ UNCHANGED <<inPlayer, inEnemy, input0, mode, pc, maxTicks, tickCalls, frame, gameState, game, timers>>

(* the planning view asks the game state for the active traits *)
PGetActiveTraits ==
    Computed("getActiveTraits", Cur, getActiveTraits(Cur, inPlayer))

(* Game.startCombat: traitSystem.calculateTraits on the units of the board *)
PCalculateTraits ==
    Computed("calculateTraits", Cur,
             calculateTraits(Cur, getUnitsOnBoard(Cur, inPlayer)))

(* the combat engine's applyTraitBonuses on the units of the board *)
PApplyTraitBonuses ==
    \E us \in {getUnitsOnBoard(Cur, inPlayer)} :
      \E H \in {applyTraitBonuses(Cur, us)} :
        Computed("applyTraitBonuses", H, activatedTraits(Cur, us))

(* TraitSystem._applyTraitBonus(unit, traitId, bonus) *)
applyTraitBonus(H, r, traitId, bonus) == applyBonusToUnit(H, r, bonus)

(* TraitSystem.applyBonuses, the loop over the traits of one unit from the *)
(* j-th on                                                                 *)
RECURSIVE ApplyActiveTraits(_, _, _, _)
ApplyActiveTraits(Hin, r, activeTraits, j) ==
    CHOOSE out \in
      { IF j > Len(traitsOf(U(H, r))) THEN H
        ELSE LET traitId == traitsOf(U(H, r))[j]
                 info == { a \in activeTraits : a.trait = traitId }
             IN  ApplyActiveTraits(
                   IF info = {} THEN H
                   ELSE applyTraitBonus(H, r, traitId,
                                        (CHOOSE a \in info : TRUE).bonus),
                   r, activeTraits, j + 1)
        : H \in {Hin} } : TRUE

(* TraitSystem.applyBonuses(units) with this.activeTraits as given: each   *)
(* living unit on the board has its buffs reset and gets the bundle of     *)
(* each active trait it carries                                            *)
RECURSIVE applyBonuses(_, _, _, _)
applyBonuses(Hin, us, activeTraits, i) ==
    CHOOSE out \in
      { IF i > Len(us) THEN H
        ELSE applyBonuses(
               IF isOnBoard(H, us[i]) /\ isAlive(H, us[i])
               THEN ApplyActiveTraits(resetBuffs(H, us[i]), us[i],
                                      activeTraits, 1)
               ELSE H,
               us, activeTraits, i + 1)
        : H \in {Hin} } : TRUE

(* Game.startCombat: traitSystem.calculateTraits(playerUnits) followed by  *)
(* traitSystem.applyBonuses(playerUnits)                                   *)
PApplyBonuses ==
    \E us \in {getUnitsOnBoard(Cur, inPlayer)} :
      \E active \in {calculateTraits(Cur, us)} :
        \E H \in {applyBonuses(Cur, us, active, 1)} :
          Computed("applyBonuses", H, active)

NextBoard ==
    \/ PGetActiveTraits
    \/ PCalculateTraits
    \/ PApplyTraitBonuses
    \/ PApplyBonuses

SpecBoard == InitBoard /\ [][NextBoard]_vars

----------------------------------------------------------------------------
(* A combat in progress: SpecEngine.  A behaviour either follows calls of  *)
(* tick() unit by unit or calls findTarget, attack and castAbility          *)
(* directly.                                                               *)

MaxFoes == 2          \* units of the enemy roster in SpecEngine
MaxEngineTicks == 2   \* calls of tick() followed in SpecEngine
MaxEngineCalls == 1   \* direct calls of the engine's methods in SpecEngine

(* The unit the scenario is about, first of the player roster.  hp is      *)
(* "full", "low" (LowHp hit points left), "dead" (the unit died) or "nan"  *)
(* (an attack left it without a number of hit points); stun and cooldown   *)
(* are in ticks.                                                           *)
LowHp == 50

EngineUnitOf(t, p) ==
    [templateId |-> t, starLevel |-> 1, pos |-> p, used |-> FALSE,
     hp |-> "full", mana |-> 0, stun |-> 0, cooldown |-> 0]

ActorChoices ==
    { EngineUnitOf("squire", <<3, 3>>),
      [EngineUnitOf("squire", <<3, 3>>) EXCEPT !.cooldown = 2],
      [EngineUnitOf("squire", <<3, 3>>) EXCEPT !.cooldown = 2, !.stun = 2],
      [EngineUnitOf("squire", <<3, 3>>) EXCEPT !.cooldown = 2, !.stun = 1],
      [EngineUnitOf("knight", <<3, 3>>) EXCEPT !.mana = 90],
      [EngineUnitOf("stormArcher", <<3, 3>>) EXCEPT !.mana = 90],
      [EngineUnitOf("scout", <<3, 3>>) EXCEPT !.mana = 95],
      EngineUnitOf("squire", <<7, 0>>),
      EngineUnitOf("squire", NoPos) }

(* the player rosters: the unit alone, or the unit of the corner with an   *)
(* ally in the cell next to it                                             *)
PlayerRosters ==
    { <<a>> : a \in ActorChoices }
      \cup { << EngineUnitOf("squire", <<7, 0>>),
                EngineUnitOf("squire", <<7, 1>>) >> }

FoeChoices ==
    { EngineUnitOf("squire", <<3, 7>>),
      EngineUnitOf("apprentice", <<7, 3>>),
      [EngineUnitOf("apprentice", <<3, 4>>) EXCEPT !.hp = "low"],
      [EngineUnitOf("squire", <<4, 4>>) EXCEPT !.hp = "nan"],
      EngineUnitOf("squire", NoPos) }

(* the enemy rosters: at most MaxFoes distinct choices *)
FoeRosters ==
    UNION { { q \in [1..k -> FoeChoices] :
                \A i, j \in 1..k : i # j => q[i] # q[j] }
            : k \in 1..MaxFoes }

(* what earlier ticks and calls left on the combatant r *)
Traces(Hin, r, d, target) ==
    CHOOSE out \in
      { LET H1 == [H EXCEPT !.units[r].currentMana = d.mana,
                            !.units[r].attackCooldown = d.cooldown,
                            !.units[r].target = target]
            H2 == IF d.stun > 0
                  THEN [H1 EXCEPT !.units[r].statusEffects.stunned = TRUE,
                                  !.units[r].statusEffects.stunDuration = d.stun]
                  ELSE H1
        IN  IF d.hp = "full" THEN H2
            ELSE IF d.hp = "dead" THEN die(H2, r)
            ELSE IF d.hp = "nan" THEN takeDamage(H2, r, NaN, "physical").H
            ELSE [H2 EXCEPT !.units[r].currentHp = Num(LowHp)]
        : H \in {Hin} } : TRUE

RECURSIVE TraceAll(_, _, _, _)
TraceAll(H, roster, ds, i) ==
    IF i > Len(roster) THEN H
    ELSE TraceAll(Traces(H, roster[i], ds[i], U(H, roster[i]).target),
                  roster, ds, i + 1)

(* the engine after start(): the rosters cloned and buffed, then the       *)
(* traces of the combat so far; the first player unit has target k of the  *)
(* enemy roster, 0 for none; findTarget gives a unit on the board an enemy *)
(* on the board                                                            *)
InProgress(Hin, pr, er, k) ==
    CHOOSE out \in
      { [ updateOccupiedPositions(
            TraceAll(
              TraceAll([H EXCEPT !.units[H.pl[1]].target =
                                    IF k = 0 THEN NullRef ELSE H.en[k]],
                       H.pl, pr, 1),
              H.en, er, 1))
          EXCEPT !.log = << >> ]
        : H \in {Hin} } : TRUE

InitEngine ==
    \E pr \in PlayerRosters, er \in FoeRosters :
      \E k \in {0} \cup { j \in 1..Len(er) :
                            pr[1].pos # NoPos /\ er[j].pos # NoPos } :
        LET all == pr \o er
            H0  == [units |-> [i \in 1..Len(all) |-> InputUnit(all[i], i)],
                    buffs |-> [i \in 1..Len(all) |-> ZeroBuffs],
                    pl |-> << >>, en |-> << >>, occupied |-> {},
                    log |-> << >>, tick |-> 0, isRunning |-> FALSE,
                    tickInterval |-> FALSE, result |-> NewCombatResult,
                    onCombatEnd |-> FALSE, onTick |-> FALSE,
                    observed |-> 0, resolved |-> 0]
        IN  \E H \in {InProgress(
                        Prepare(H0, [i \in 1..Len(pr) |-> i],
                                [i \in 1..Len(er) |-> Len(pr) + i]),
                        pr, er, k)} :
              /\ units = H.units
              /\ buffs = H.buffs
              /\ inPlayer = [i \in 1..Len(pr) |-> i]
              /\ inEnemy = [i \in 1..Len(er) |-> Len(pr) + i]
              /\ input0 = [units |-> H0.units, buffs |-> H0.buffs]
              /\ playerUnits = H.pl
              /\ enemyUnits = H.en
              /\ isRunning = H.isRunning
              /\ tickCount = H.tick
              /\ tickInterval = H.tickInterval
              /\ result = H.result
              /\ combatLog = H.log
              /\ occupied = H.occupied
              /\ onCombatEnd = FALSE
              /\ onTick = TRUE
              /\ observed = 0
              /\ resolved = 0
              /\ mode = "engine"
              /\ pc = "idle"
              /\ maxTicks = 0
              /\ tickCalls = 0
              /\ lastOp = NoOp
              /\ frame = NoFrame
              /\ gameState = NoGame
              /\ game = NoController
              /\ timers = NoTimers

(* tick() up to its loop: the guard, the counter, the units alive, the end *)
(* of the combat, the occupied cache, the shuffle                          *)
TickBegin ==
    /\ mode = "engine"
    /\ ~frame.active
    /\ isRunning
    /\ lastOp.n = 0
    /\ tickCalls < MaxEngineTicks
    /\ \E H1 \in {[Cur EXCEPT !.tick = @ + 1]} :
         IF isOver(H1)
         THEN /\ \E H \in {determinWinner(H1)} : Becomes(H)
              /\ frame' = NoFrame
         ELSE /\ \E H \in {updateOccupiedPositions(H1)} : Becomes(H)
              /\ frame' = [active |-> TRUE,
                           todo |-> { (aliveOf(H1, H1.pl) \o aliveOf(H1, H1.en))[i] :
                                        i \in 1..Len(aliveOf(H1, H1.pl)
                                                     \o aliveOf(H1, H1.en)) },
                           alivePlayerUnits |-> aliveOf(H1, H1.pl),
                           aliveEnemyUnits |-> aliveOf(H1, H1.en),
                           unit |-> NullRef]
    /\ tickCalls' = tickCalls + 1
    /\ UNCHANGED <<inPlayer, inEnemy, input0, mode, pc, maxTicks, lastOp, gameState, game, timers>>

(* one round of the loop of tick(): the shuffle can put any of the units   *)
(* not yet processed next                                                  *)
TickUnit ==
    /\ mode = "engine"
    /\ frame.active
    /\ \E r \in frame.todo :
         /\ \E H \in ProcessUnit(Cur, r, frame.alivePlayerUnits,
                                 frame.aliveEnemyUnits) : Becomes(H)
         /\ frame' = [frame EXCEPT !.todo = @ \ {r}, !.unit = r]
    /\ UNCHANGED <<inPlayer, inEnemy, input0, mode, pc, maxTicks, tickCalls,
                   lastOp, gameState, game, timers>>

(* tick() after its loop: the tick callback *)
TickEnd ==
    /\ mode = "engine"
    /\ frame.active
    /\ frame.todo = {}
    /\ Becomes(IF onTick THEN [Cur EXCEPT !.observed = @ + 1] ELSE Cur)
    /\ frame' = NoFrame
    /\ UNCHANGED <<inPlayer, inEnemy, input0, mode, pc, maxTicks, tickCalls,
                   lastOp, gameState, game, timers>>

(* castAbility(caster, target) called on a unit that has an ability and    *)
(* one of its enemies                                                      *)
CastAbility ==
    /\ mode = "engine"
    /\ ~frame.active
    /\ tickCalls = 0
    /\ lastOp.n < MaxEngineCalls
    /\ \E c \in 1..Len(playerUnits), k \in 1..Len(enemyUnits) :
         /\ abilityOf(U(Cur, playerUnits[c])).present
         /\ \E H \in {castAbility(Cur, playerUnits[c], enemyUnits[k])} :
              Becomes(H)
         /\ lastOp' = [op |-> "castAbility",
                       arg |-> [unit |-> playerUnits[c],
                                target |-> enemyUnits[k]],
                       ret |-> Num(0), n |-> lastOp.n + 1]
    /\ UNCHANGED <<inPlayer, inEnemy, input0, mode, pc, maxTicks, tickCalls,
                   frame, gameState, game, timers>>

(* findTarget(unit, enemies) called on a unit of either side with the      *)
(* roster of the other side                                                *)
FindTarget ==
    /\ mode = "engine"
    /\ ~frame.active
    /\ tickCalls = 0
    /\ lastOp.n < MaxEngineCalls
    /\ \E i \in 1..Len(playerUnits \o enemyUnits) :
         \E r \in {(playerUnits \o enemyUnits)[i]} :
           \E H \in {findTarget(Cur, r,
                                IF U(Cur, r).ownerId = "player"
                                THEN enemyUnits ELSE playerUnits)} :
             /\ Becomes(H)
             /\ lastOp' = [op |-> "findTarget",
                           arg |-> [unit |-> r, target |-> NullRef],
                           ret |-> U(H, r).target, n |-> lastOp.n + 1]
    /\ UNCHANGED <<inPlayer, inEnemy, input0, mode, pc, maxTicks, tickCalls,
                   frame, gameState, game, timers>>

(* attack(attacker, defender) called on a unit of the player's roster and  *)
(* one of its enemies                                                      *)
Attack ==
    /\ mode = "engine"
    /\ ~frame.active
    /\ tickCalls = 0
    /\ lastOp.n < MaxEngineCalls
    /\ \E c \in 1..Len(playerUnits), k \in 1..Len(enemyUnits) :
         /\ \E H \in attack(Cur, playerUnits[c], enemyUnits[k]) : Becomes(H)
         /\ lastOp' = [op |-> "attack",
                       arg |-> [unit |-> playerUnits[c],
                                target |-> enemyUnits[k]],
                       ret |-> Num(0), n |-> lastOp.n + 1]
    /\ UNCHANGED <<inPlayer, inEnemy, input0, mode, pc, maxTicks, tickCalls,
                   frame, gameState, game, timers>>

NextEngine ==
    \/ TickBegin
    \/ TickUnit
    \/ TickEnd
    \/ CastAbility
    \/ FindTarget
    \/ Attack

SpecEngine == InitEngine /\ [][NextEngine]_vars

----------------------------------------------------------------------------
(* The shop and the units a player owns: SpecShop                          *)

BENCH_SIZE == 9
PLAYER_ROWS == 4
COPIES_TO_UPGRADE == 3
STARTING_GOLD == 10
STARTING_HP == 100
UNIT_POOL_SIZE == <<29, 22, 16>>   \* copies of a unit in the pool, by cost

MaxAside == 1         \* purchases of the second template in SpecShop

NullId == 0           \* no unit id: an empty bench slot or board cell
NoIndex == -1         \* benchIndex = null

(* the templates the shop offers in the model, with UNITS[id].cost *)
ShopCost == [squire |-> 1, apprentice |-> 1]
ShopTemplates == DOMAIN ShopCost

(* the cells of the player's half of the board, as positions <<x, y>>      *)
PlayerCells == (0..(BOARD_COLS - 1)) \X (0..(PLAYER_ROWS - 1))

(* the cell the model places units on *)
PlaceCells == { <<1, 0>> }

(* new UnitInstance(unitId) *)
UnitInstance(id, unitId) ==
    [id |-> id, unitId |-> unitId, starLevel |-> 1, position |-> NoPos,
     isOnBench |-> FALSE, benchIndex |-> NoIndex]

(* new GameState(): ownedUnits is the Map in insertion order, nextId the   *)
(* source of fresh unit ids                                                *)
NewGame ==
    [present |-> TRUE, gold |-> STARTING_GOLD, level |-> 1,
     playerBoard |-> [c \in PlayerCells |-> NullId],
     bench |-> [i \in 1..BENCH_SIZE |-> NullId],
     unitPool |-> [t \in ShopTemplates |-> UNIT_POOL_SIZE[ShopCost[t]]],
     ownedUnits |-> << >>, unitsUpgraded |-> 0, nextId |-> 1,
     xp |-> 0, hp |-> STARTING_HP, round |-> 1, phase |-> "prep",
     winStreak |-> 0, loseStreak |-> 0, wins |-> 0, losses |-> 0,
     damageTaken |-> 0, roundsPlayed |-> 0]

(* ownedUnits.get(id) *)
OwnedIndex(G, id) == CHOOSE i \in 1..Len(G.ownedUnits) : G.ownedUnits[i].id = id
Owned(G, id) == G.ownedUnits[OwnedIndex(G, id)]

(* ownedUnits.delete(id) *)
DeleteOwned(G, id) ==
    [G EXCEPT !.ownedUnits = SelectSeq(@, LAMBDA u : u.id # id)]

(* a removeUnitFromCurrentLocation that leaves the board cell as it is *)
removeUnitFromCurrentLocation_cellKept(Gin, id) ==
    CHOOSE out \in
      { LET G1 == IF G.ownedUnits[i].position # NoPos
                  THEN [G EXCEPT !.ownedUnits[i].position = NoPos]
                  ELSE G
        IN  IF G1.ownedUnits[i].isOnBench
               /\ G1.ownedUnits[i].benchIndex # NoIndex
            THEN [G1 EXCEPT !.bench[G1.ownedUnits[i].benchIndex + 1] = NullId,
                            !.ownedUnits[i].isOnBench = FALSE,
                            !.ownedUnits[i].benchIndex = NoIndex]
            ELSE G1
        : G \in {Gin}, i \in {OwnedIndex(Gin, id)} } : TRUE

(* removeUnitFromCurrentLocation(unit) *)
removeUnitFromCurrentLocation(Gin, id) ==
    CHOOSE out \in
      { LET G1 == IF G.ownedUnits[i].position # NoPos
                  THEN [G EXCEPT !.playerBoard[G.ownedUnits[i].position] = NullId,
                                 !.ownedUnits[i].position = NoPos]
                  ELSE G
        IN  IF G1.ownedUnits[i].isOnBench
               /\ G1.ownedUnits[i].benchIndex # NoIndex
            THEN [G1 EXCEPT !.bench[G1.ownedUnits[i].benchIndex + 1] = NullId,
                            !.ownedUnits[i].isOnBench = FALSE,
                            !.ownedUnits[i].benchIndex = NoIndex]
            ELSE G1
        : G \in {Gin}, i \in {OwnedIndex(Gin, id)} } : TRUE

hasBenchSpace(G) == \E i \in 1..BENCH_SIZE : G.bench[i] = NullId

(* addUnitToBench(unit): the new state and the value returned *)
addUnitToBench(Gin, id) ==
    CHOOSE out \in
      { IF ~hasBenchSpace(G) THEN [G |-> G, ret |-> FALSE]
        ELSE LET emptySlot == CHOOSE i \in 1..BENCH_SIZE :
                                /\ G.bench[i] = NullId
                                /\ \A j \in 1..(i - 1) : G.bench[j] # NullId
                 G1 == removeUnitFromCurrentLocation(G, id)
                 i  == OwnedIndex(G, id)
             IN  [G |-> [G1 EXCEPT !.bench[emptySlot] = id,
                                   !.ownedUnits[i].isOnBench = TRUE,
                                   !.ownedUnits[i].benchIndex = emptySlot - 1,
                                   !.ownedUnits[i].position = NoPos],
                  ret |-> TRUE]
        : G \in {Gin} } : TRUE

(* getUnitsOnBoard().length *)
TeamSize(G) == Cardinality({ c \in PlayerCells : G.playerBoard[c] # NullId })

(* a placeUnitOnBoard without the team size limit *)
placeUnitOnBoard_noLimit(Gin, id, pos) ==
    CHOOSE out \in
      { IF pos \notin PlayerCells THEN G
        ELSE IF G.playerBoard[pos] # NullId THEN G
        ELSE LET G1 == removeUnitFromCurrentLocation(G, id)
                 i  == OwnedIndex(G, id)
             IN  [G1 EXCEPT !.playerBoard[pos] = id,
                            !.ownedUnits[i].position = pos,
                            !.ownedUnits[i].isOnBench = FALSE,
                            !.ownedUnits[i].benchIndex = NoIndex]
        : G \in {Gin} } : TRUE

(* placeUnitOnBoard(unit, row, col) with pos = <<col, row>> *)
placeUnitOnBoard(Gin, id, pos) ==
    CHOOSE out \in
      { IF pos \notin PlayerCells THEN G
        ELSE IF G.playerBoard[pos] # NullId THEN G
        ELSE IF Owned(G, id).isOnBench /\ TeamSize(G) >= G.level THEN G
        ELSE LET G1 == removeUnitFromCurrentLocation(G, id)
                 i  == OwnedIndex(G, id)
             IN  [G1 EXCEPT !.playerBoard[pos] = id,
                            !.ownedUnits[i].position = pos,
                            !.ownedUnits[i].isOnBench = FALSE,
                            !.ownedUnits[i].benchIndex = NoIndex]
        : G \in {Gin} } : TRUE

(* createUnit(unitId, true): the new state and the id of the unit, NullId  *)
(* for null                                                                *)
createUnit(Gin, unitId) ==
    CHOOSE out \in
      { IF b.ret THEN [G |-> b.G, ret |-> G.nextId]
        ELSE [G |-> [DeleteOwned(b.G, G.nextId)
                       EXCEPT !.unitPool[unitId] = @ + 1],
              ret |-> NullId]
        : G \in {Gin},
          b \in {addUnitToBench(
                   [Gin EXCEPT !.ownedUnits =
                                  Append(@, UnitInstance(Gin.nextId, unitId)),
                               !.nextId = @ + 1,
                               !.unitPool[unitId] =
                                  IF @ > 0 THEN @ - 1 ELSE @],
                   Gin.nextId)} } : TRUE

(* the ids of the owned units of a template at a star level, in the order  *)
(* of the Map                                                              *)
byStarLevel(G, unitId, star) ==
    LET matchingUnits ==
          SelectSeq(G.ownedUnits,
                    LAMBDA u : u.unitId = unitId /\ u.starLevel = star)
    IN  [i \in 1..Len(matchingUnits) |-> matchingUnits[i].id]

(* checkForUpgrades, `Remove the other 2` *)
RemoveOthers(G, toUpgrade) ==
    DeleteOwned(
      removeUnitFromCurrentLocation(
        DeleteOwned(removeUnitFromCurrentLocation(G, toUpgrade[2]),
                    toUpgrade[2]),
        toUpgrade[3]),
      toUpgrade[3])

(* checkForUpgrades, the while loop of one star level: unitsAtLevel and    *)
(* next are byStarLevel[starLevel] and byStarLevel[starLevel + 1]          *)
RECURSIVE CombineAtLevel(_, _, _, _)
CombineAtLevel(G, unitsAtLevel, next, upgraded) ==
    IF Len(unitsAtLevel) < COPIES_TO_UPGRADE
    THEN [G |-> G, next |-> next, upgraded |-> upgraded]
    ELSE CombineAtLevel(
           [RemoveOthers(
              [G EXCEPT !.ownedUnits[OwnedIndex(G, unitsAtLevel[1])].starLevel
                           = @ + 1],
              unitsAtLevel)
            EXCEPT !.unitsUpgraded = @ + 1],
           SubSeq(unitsAtLevel, COPIES_TO_UPGRADE + 1, Len(unitsAtLevel)),
           Append(next, unitsAtLevel[1]),
           TRUE)

(* the same loop for the first star level only *)
checkForUpgrades_oneLevel(Gin, unitId) ==
    CHOOSE out \in
      { [G |-> l1.G, ret |-> l1.upgraded]
        : l1 \in {CombineAtLevel(Gin, byStarLevel(Gin, unitId, 1),
                                 byStarLevel(Gin, unitId, 2), FALSE)} } : TRUE

(* checkForUpgrades(unitId): the new state and the value returned *)
checkForUpgrades(Gin, unitId) ==
    CHOOSE out \in
      { [G |-> l2.G, ret |-> l2.upgraded]
        : l2 \in
            { CombineAtLevel(l1.G, l1.next, byStarLevel(Gin, unitId, 3),
                             l1.upgraded)
              : l1 \in {CombineAtLevel(Gin, byStarLevel(Gin, unitId, 1),
                                       byStarLevel(Gin, unitId, 2), FALSE)} }
      } : TRUE

(* addGold(amount) *)
addGold(G, amount) == IF amount <= 0 THEN G ELSE [G EXCEPT !.gold = @ + amount]

(* spendGold(amount) *)
spendGold(G, amount) ==
    IF amount <= 0 \/ G.gold < amount THEN G ELSE [G EXCEPT !.gold = @ - amount]

Refused(G) == [G |-> G, ret |-> [success |-> FALSE, upgraded |-> FALSE]]

(* Shop.buyUnit(index) for a slot that holds an offer of the template      *)
(* offer: the new state and the result object                              *)
buyUnit(Gin, offer) ==
    CHOOSE out \in
      { IF G.gold < ShopCost[offer] THEN Refused(G)
        ELSE IF ~hasBenchSpace(G) THEN Refused(G)
        ELSE IF G.unitPool[offer] <= 0 THEN Refused(G)
        ELSE CHOOSE res \in
               { IF c.ret = NullId
                 THEN Refused(addGold(c.G, ShopCost[offer]))
                 ELSE CHOOSE r2 \in
                        { [G |-> k.G,
                           ret |-> [success |-> TRUE, upgraded |-> k.ret]]
                          : k \in {checkForUpgrades(c.G, offer)} } : TRUE
                 : c \in {createUnit(spendGold(G, ShopCost[offer]), offer)} }
               : TRUE
        : G \in {Gin} } : TRUE

(* new GameState() and new Shop(gameState) *)
InitShop ==
    /\ units = << >>
    /\ buffs = << >>
    /\ inPlayer = << >>
    /\ inEnemy = << >>
    /\ input0 = [units |-> << >>, buffs |-> << >>]
    /\ playerUnits = << >>
    /\ enemyUnits = << >>
    /\ isRunning = FALSE
    /\ tickCount = 0
    /\ tickInterval = FALSE
    /\ result = NewCombatResult
    /\ combatLog = << >>
    /\ occupied = {}
    /\ onCombatEnd = FALSE
    /\ onTick = FALSE
    /\ observed = 0
    /\ resolved = 0
    /\ mode = "shop"
    /\ pc = "idle"
    /\ maxTicks = 0
    /\ tickCalls = 0
    /\ lastOp = [op |-> "none", arg |-> "none",
                 ret |-> [success |-> FALSE, upgraded |-> FALSE], n |-> 0]
    /\ frame = NoFrame
    /\ gameState = NewGame
    /\ game = NoController
    /\ timers = NoTimers

ShopUnchanged ==
    UNCHANGED <<units, buffs, inPlayer, inEnemy, input0, playerUnits,
                enemyUnits, isRunning, tickCount, tickInterval, result,
                combatLog, occupied, onCombatEnd, onTick, observed, resolved,
                mode, pc, maxTicks, tickCalls, frame, game, timers>>

(* shop.buyUnit(index): the slot can hold any template; the second         *)
(* template is bought at most MaxAside times                               *)
BuyUnit ==
    /\ mode = "shop"
    /\ \E offer \in ShopTemplates :
         /\ offer # "squire"
            => UNIT_POOL_SIZE[ShopCost[offer]] - gameState.unitPool[offer]
                 < MaxAside
         /\ \E b \in {buyUnit(gameState, offer)} :
              /\ gameState' = b.G
              /\ lastOp' = [op |-> "buyUnit", arg |-> offer, ret |-> b.ret,
                            n |-> 0]
    /\ ShopUnchanged

(* gameState.placeUnitOnBoard(unit, row, col) for an owned unit *)
PlaceUnitOnBoard ==
    /\ mode = "shop"
    /\ \E i \in 1..Len(gameState.ownedUnits), pos \in PlaceCells :
         gameState' = placeUnitOnBoard(gameState, gameState.ownedUnits[i].id,
                                       pos)
    /\ lastOp' = [lastOp EXCEPT !.op = "placeUnitOnBoard"]
    /\ ShopUnchanged

(* gameState.addGold(amount), the income of a round; in the model it       *)
(* arrives when the gold is spent                                          *)
AddGold ==
    /\ mode = "shop"
    /\ gameState.gold = 0
    /\ gameState' = addGold(gameState, STARTING_GOLD)
    /\ lastOp' = [lastOp EXCEPT !.op = "addGold"]
    /\ ShopUnchanged

NextShop ==
    \/ BuyUnit
    \/ PlaceUnitOnBoard
    \/ AddGold

SpecShop == InitShop /\ [][NextShop]_vars

----------------------------------------------------------------------------
(* The Game controller and the phases of the GameState: SpecGame. The      *)
(* battle itself is not followed unit by unit here: the engine is the      *)
(* Combat object's isRunning, tickInterval and onCombatEnd, and the tick   *)
(* that ends the battle delivers one of the results a battle can have.     *)

PASSIVE_INCOME == 5
MAX_INTEREST == 5
XP_PER_ROUND == 2
PREP_PHASE_DURATION == 30
WIN_STREAK_BONUS == <<0, 1, 1, 2, 2, 3>>    \* index = streak count
LOSE_STREAK_BONUS == <<0, 1, 1, 2, 2, 3>>
LEVEL_XP == <<0, 2, 6, 10, 20, 36, 56, 80, 100>>

MaxCombats == 2       \* calls of Game.startCombat in SpecGame
MaxRestarts == 1      \* clicks on the restart button in SpecGame

(* GameState.takeDamage(amount) *)
stateTakeDamage(G, amount) ==
    IF amount <= 0 THEN G
    ELSE LET G1 == [G EXCEPT !.hp = Max(0, @ - amount),
                             !.damageTaken = @ + amount]
         IN  IF G1.hp <= 0 THEN [G1 EXCEPT !.phase = "game_over"] ELSE G1

(* GameState.canLevelUp() and levelUp(), as the loop of gainXP runs them *)
canLevelUp(G) == G.level < 9 /\ G.xp >= LEVEL_XP[G.level + 1]

RECURSIVE LevelUps(_)
LevelUps(G) ==
    IF canLevelUp(G) THEN LevelUps([G EXCEPT !.level = @ + 1]) ELSE G

(* GameState.gainXP(amount) *)
gainXP(G, amount) ==
    IF amount <= 0 \/ G.level >= 9 THEN G
    ELSE LevelUps([G EXCEPT !.xp = @ + amount])

(* GameState.calculateIncome().total *)
calculateIncome(G) ==
    PASSIVE_INCOME
    + Min(G.gold \div 10, MAX_INTEREST)
    + (IF G.winStreak > 0
       THEN WIN_STREAK_BONUS[Min(G.winStreak, Len(WIN_STREAK_BONUS) - 1) + 1]
       ELSE 0)
    + (IF G.loseStreak > 0
       THEN LOSE_STREAK_BONUS[Min(G.loseStreak, Len(LOSE_STREAK_BONUS) - 1) + 1]
       ELSE 0)

(* GameState.collectIncome() *)
collectIncome(G) == addGold(G, calculateIncome(G))

(* GameState.startRound() *)
stateStartRound(G) ==
    [collectIncome(gainXP([G EXCEPT !.roundsPlayed = @ + 1], XP_PER_ROUND))
       EXCEPT !.phase = "prep"]

(* GameState.startCombat() *)
stateStartCombat(G) == [G EXCEPT !.phase = "combat"]

(* GameState.endCombat(won, damage) *)
stateEndCombat(G, won, damage) ==
    LET G1 == IF won
              THEN [G EXCEPT !.wins = @ + 1, !.winStreak = @ + 1,
                             !.loseStreak = 0]
              ELSE stateTakeDamage([G EXCEPT !.losses = @ + 1,
                                             !.loseStreak = @ + 1,
                                             !.winStreak = 0], damage)
    IN  [G1 EXCEPT !.round = @ + 1, !.phase = "prep"]

isPrep(G) == G.phase = "prep"
isGameOver(G) == G.phase = "game_over"

(* the world of the Game controller: W.G the GameState, W.M the Game      *)
(* object, W.T the timers, W.C the Combat object                          *)
World ==
    [G |-> gameState, M |-> game, T |-> timers,
     C |-> [isRunning |-> isRunning, tickInterval |-> tickInterval,
            onCombatEnd |-> onCombatEnd, resolved |-> resolved]]

(* Game.stopPrepTimer() *)
stopPrepTimer(W) ==
    IF W.M.timerInterval
    THEN [W EXCEPT !.T.prep = @ - 1, !.M.timerInterval = FALSE]
    ELSE W

(* Game.startPrepTimer() *)
startPrepTimer(W) ==
    LET W1 == [W EXCEPT !.M.prepTimeRemaining = PREP_PHASE_DURATION]
        W2 == IF W1.M.timerInterval THEN [W1 EXCEPT !.T.prep = @ - 1] ELSE W1
    IN  [W2 EXCEPT !.T.prep = @ + 1, !.M.timerInterval = TRUE]

(* Game.startRound(), ai.generateBoard returning the board enemies *)
startRound(W, enemies) ==
    LET W1 == IF W.G.round > 1
              THEN [W EXCEPT !.G = stateStartRound(W.G)] ELSE W
    IN  startPrepTimer([W1 EXCEPT !.M.currentEnemyUnits = enemies])

(* Game.gameOver() *)
gameOver(W) == [stopPrepTimer(W) EXCEPT !.M.modal = TRUE, !.M.gameOvers = @ + 1]

(* Game.calculateDamage(survivingUnits), the units given by star level *)
RECURSIVE gameCalculateDamage(_)
gameCalculateDamage(survivingUnits) ==
    IF survivingUnits = << >> THEN 2
    ELSE Head(survivingUnits) + gameCalculateDamage(Tail(survivingUnits))

(* Game.endCombat(result): the world it leaves, and whether it threw:     *)
(* renderer.showBoardMessage dereferences the board grid element          *)
gameEndCombat(Win, res) ==
    CHOOSE out \in
      { LET won == res.winner = "player"
            damage == IF won THEN 0 ELSE res.damageToPlayer
            W1 == [W EXCEPT !.G = stateEndCombat(W.G, won, damage),
                            !.M.applied = @ + 1]
        IN  IF ~W1.M.boardGrid THEN [W |-> W1, threw |-> TRUE]
            ELSE IF isGameOver(W1.G) THEN [W |-> gameOver(W1), threw |-> FALSE]
            ELSE [W |-> [W1 EXCEPT !.T.nextRound = @ + 1], threw |-> FALSE]
        : W \in {Win} } : TRUE

(* Combat.start(playerUnits, enemyUnits) as far as the Game sees it: the  *)
(* engine runs, a new interval timer ticks it, the promise is pending     *)
combatStart(W) ==
    [W EXCEPT !.C.isRunning = TRUE, !.C.onCombatEnd = TRUE,
              !.C.tickInterval = TRUE, !.T.tick = @ + 1]

(* Game.startCombat() up to its await *)
startCombat(Win) ==
    CHOOSE out \in
      { IF TeamSize(W.G) = 0
        THEN gameEndCombat(W, [winner |-> "enemy",
                 damageToPlayer |-> gameCalculateDamage(W.M.currentEnemyUnits)]).W
        ELSE IF Len(W.M.currentEnemyUnits) = 0
        THEN gameEndCombat(W, [winner |-> "player", damageToPlayer |-> 0]).W
        ELSE [combatStart(W) EXCEPT
                !.M.abandoned = IF W.M.awaiting THEN @ + 1 ELSE @,
                !.M.awaiting = TRUE]
        : W \in { [Wc EXCEPT !.G = stateStartCombat(Wc.G), !.M.combats = @ + 1]
                  : Wc \in {stopPrepTimer(Win)} } } : TRUE

(* Combat.stop() *)
combatStop(W) ==
    IF W.C.tickInterval
    THEN [W EXCEPT !.C.isRunning = FALSE, !.C.tickInterval = FALSE,
                   !.T.tick = @ - 1]
    ELSE [W EXCEPT !.C.isRunning = FALSE]

(* Combat.endCombat(winner, damage) as far as the Game sees it *)
combatEnd(W) ==
    LET W1 == combatStop(W)
    IN  IF W1.C.onCombatEnd THEN [W1 EXCEPT !.C.resolved = @ + 1] ELSE W1

(* the rest of Game.startCombat once the promise of start() resolves with *)
(* res: endCombat(res), and in the catch block runSync and endCombat with *)
(* the result res2 of the synchronous battle                              *)
afterAwait(Win, res, res2) ==
    CHOOSE out \in
      { IF ~first.threw THEN first.W
        ELSE gameEndCombat(
               combatEnd([first.W EXCEPT !.C.isRunning = TRUE]), res2).W
        : first \in {gameEndCombat([Win EXCEPT !.M.awaiting = FALSE], res)} }
      : TRUE

(* Game.restart(): state.reset() gives a new GameState *)
restart(W, enemies) ==
    startRound([W EXCEPT !.M.modal = FALSE, !.G = NewGame], enemies)

(* the boards ai.generateBoard hands over, each unit by its star level *)
EnemyBoards == { <<1>>, <<2, 1>> }

RECURSIVE StarsOf(_, _)
StarsOf(enemies, S) ==
    IF S = {} THEN 0
    ELSE LET i == CHOOSE x \in S : TRUE
         IN  enemies[i] + StarsOf(enemies, S \ {i})

(* the results a battle against the board enemies can deliver: the damage *)
(* to the player is 2 plus the stars of the surviving enemies             *)
BattleResults(enemies) ==
    { [winner |-> "player", damageToPlayer |-> 0],
      [winner |-> "draw", damageToPlayer |-> 0] }
    \cup { [winner |-> "enemy", damageToPlayer |-> 2 + StarsOf(enemies, S)]
           : S \in (SUBSET (1..Len(enemies))) \ {{}} }

LateHp == 5

(* the GameState of a new game, and of a game after nineteen lost rounds  *)
(* of five damage each                                                     *)
GameSnapshots ==
    { NewGame,
      [NewGame EXCEPT !.hp = LateHp, !.round = 20, !.losses = 19,
                      !.loseStreak = 19, !.xp = 38, !.level = 6, !.gold = 0,
                      !.damageTaken = 95, !.roundsPlayed = 19] }

(* the player has no unit, or one squire on the board *)
GameBoards(G) ==
    { G, placeUnitOnBoard(createUnit(G, "squire").G, G.nextId, <<1, 0>>) }

(* new Game() and init(): the renderer found its board grid element or    *)
(* not, the first round has started                                       *)
NewController(boardGrid) ==
    [present |-> TRUE, boardGrid |-> boardGrid, timerInterval |-> FALSE,
     prepTimeRemaining |-> PREP_PHASE_DURATION, currentEnemyUnits |-> << >>,
     awaiting |-> FALSE, modal |-> FALSE, gameOvers |-> 0, combats |-> 0,
     applied |-> 0, abandoned |-> 0, restarts |-> 0]

(* the world becomes W *)
Sets(W) ==
    /\ gameState' = W.G
    /\ game' = W.M
    /\ timers' = W.T
    /\ isRunning' = W.C.isRunning
    /\ tickInterval' = W.C.tickInterval
    /\ onCombatEnd' = W.C.onCombatEnd
    /\ resolved' = W.C.resolved

GameUnchanged ==
    UNCHANGED <<units, buffs, inPlayer, inEnemy, input0, playerUnits,
                enemyUnits, tickCount, result, combatLog, occupied, onTick,
                observed, mode, pc, maxTicks, tickCalls, frame>>

NoGameOp == [op |-> "none", ret |-> "none", n |-> 0]

InitGame ==
    /\ units = << >>
    /\ buffs = << >>
    /\ inPlayer = << >>
    /\ inEnemy = << >>
    /\ input0 = [units |-> << >>, buffs |-> << >>]
    /\ playerUnits = << >>
    /\ enemyUnits = << >>
    /\ tickCount = 0
    /\ result = NewCombatResult
    /\ combatLog = << >>
    /\ occupied = {}
    /\ onTick = FALSE
    /\ observed = 0
    /\ mode = "game"
    /\ pc = "idle"
    /\ maxTicks = 0
    /\ tickCalls = 0
    /\ lastOp = NoGameOp
    /\ frame = NoFrame
    /\ \E snapshot \in GameSnapshots, boardGrid \in BOOLEAN,
          enemies \in EnemyBoards :
         \E G \in GameBoards(snapshot) :
           \E W \in { startPrepTimer(
                        [G |-> G,
                         M |-> [NewController(boardGrid)
                                  EXCEPT !.currentEnemyUnits = enemies],
                         T |-> NoTimers,
                         C |-> [isRunning |-> FALSE, tickInterval |-> FALSE,
                                onCombatEnd |-> FALSE, resolved |-> 0]]) } :
             /\ gameState = W.G
             /\ game = W.M
             /\ timers = W.T
             /\ isRunning = W.C.isRunning
             /\ tickInterval = W.C.tickInterval
             /\ onCombatEnd = W.C.onCombatEnd
             /\ resolved = W.C.resolved

(* the prep timer fires: one second less, and startCombat() at zero *)
PrepTimerFires ==
    /\ mode = "game"
    /\ timers.prep > 0
    /\ game.prepTimeRemaining <= 1 => game.combats < MaxCombats
    /\ \E W \in { [World EXCEPT !.M.prepTimeRemaining = @ - 1] } :
         IF W.M.prepTimeRemaining <= 0
         THEN /\ Sets(startCombat(W))
              /\ lastOp' = [op |-> "startCombat", ret |-> "timer",
                            n |-> lastOp.n]
         ELSE /\ Sets(W)
              /\ lastOp' = [op |-> "prepTick", ret |-> "none", n |-> lastOp.n]
    /\ GameUnchanged

(* UI.onStartCombat(): the start combat button *)
ClickStartCombat ==
    /\ mode = "game"
    /\ game.combats < MaxCombats
    /\ isPrep(gameState)
    /\ TeamSize(gameState) > 0
    /\ Sets(startCombat(World))
    /\ lastOp' = [op |-> "startCombat", ret |-> "click", n |-> lastOp.n]
    /\ GameUnchanged

(* a tick of the engine ends the battle: Combat.endCombat resolves the    *)
(* promise of start() and the pending Game.startCombat goes on            *)
CombatEnds ==
    /\ mode = "game"
    /\ isRunning
    /\ timers.tick > 0
    /\ \E res \in BattleResults(game.currentEnemyUnits),
          res2 \in BattleResults(game.currentEnemyUnits) :
         /\ game.boardGrid => res2 = res
         /\ \E W \in {combatEnd(World)} :
              IF W.M.awaiting
              THEN Sets(afterAwait(W, res, res2))
              ELSE Sets(W)
         /\ lastOp' = [op |-> "combatEnds", ret |-> res.winner, n |-> lastOp.n]
    /\ GameUnchanged

(* the timeout that Game.endCombat set fires: nextRound() *)
NextRoundTimeout ==
    /\ mode = "game"
    /\ timers.nextRound > 0
    /\ \E enemies \in EnemyBoards :
         Sets(startRound([World EXCEPT !.T.nextRound = @ - 1], enemies))
    /\ lastOp' = [op |-> "nextRound", ret |-> "none", n |-> lastOp.n]
    /\ GameUnchanged

(* the restart button *)
Restart ==
    /\ mode = "game"
    /\ game.restarts < MaxRestarts
    /\ \E enemies \in EnemyBoards :
         Sets(restart([World EXCEPT !.M.restarts = @ + 1], enemies))
    /\ lastOp' = [op |-> "restart", ret |-> "none", n |-> lastOp.n]
    /\ GameUnchanged

NextGame ==
    \/ PrepTimerFires
    \/ ClickStartCombat
    \/ CombatEnds
    \/ NextRoundTimeout
    \/ Restart

SpecGame == InitGame /\ [][NextGame]_vars

----------------------------------------------------------------------------
(* The interval timers of one Combat instance: SpecTimers. start() may be *)
(* called on a new, a running or an ended instance; every interval timer  *)
(* that was set and not cleared keeps calling tick().                     *)

MaxStarts == 2        \* calls of start() in SpecTimers

(* the timers after a step of the engine: clearInterval ran on the timer  *)
(* that tickInterval named if the step set tickInterval to null           *)
TimersAfter(H) ==
    IF tickInterval /\ ~H.tickInterval
    THEN [timers EXCEPT !.tick = @ - 1]
    ELSE timers

InitTimers == Init

(* start(playerUnits, enemyUnits), whatever the state of the instance *)
StartTimer ==
    /\ mode \in {"new", "realtime"}
    /\ lastOp.n < MaxStarts
    /\ \E H \in {Prepare(Cur, inPlayer, inEnemy)} :
         Becomes([H EXCEPT !.onCombatEnd = TRUE, !.tickInterval = TRUE])
    /\ timers' = [timers EXCEPT !.tick = @ + 1]
    /\ mode' = "realtime"
    /\ lastOp' = [lastOp EXCEPT !.n = @ + 1]
    /\ UNCHANGED <<inPlayer, inEnemy, input0, pc, maxTicks, tickCalls, frame,
                   gameState, game>>

(* one of the active interval timers fires and calls tick() *)
IntervalFires ==
    /\ mode = "realtime"
    /\ timers.tick > 0
    /\ tickCount < MaxRealTicks
    /\ \E H \in tick(Cur) :
         /\ Becomes(H)
         /\ timers' = TimersAfter(H)
    /\ UNCHANGED <<inPlayer, inEnemy, input0, mode, pc, maxTicks, tickCalls,
                   lastOp, frame, gameState, game>>

(* stop(), called by the owner of the engine *)
StopTimer ==
    /\ mode = "realtime"
    /\ isRunning
    /\ \E H \in {stop(Cur)} :
         /\ Becomes(H)
         /\ timers' = TimersAfter(H)
    /\ UNCHANGED <<inPlayer, inEnemy, input0, mode, pc, maxTicks, tickCalls,
                   lastOp, frame, gameState, game>>

NextTimers ==
    \/ StartTimer
    \/ IntervalFires
    \/ StopTimer

SpecTimers == InitTimers /\ [][NextTimers]_vars

----------------------------------------------------------------------------
(* A real-time combat that nobody stops: start() and the interval timer   *)

MaxLivePlayers == 3   \* player units in a combat that is followed to its end
MaxLiveEnemies == 1   \* enemy units in a combat that is followed to its end
MaxLiveTicks == 60    \* ticks of a combat that is followed to its end

(* rosters whose units are all on the board, at pairwise distinct cells:   *)
(* a unit in a corner with both cells ahead of it taken by its allies      *)
LivePlayerLine ==
    << [templateId |-> "squire", starLevel |-> 1, pos |-> <<0, 0>>, used |-> FALSE],
       [templateId |-> "knight", starLevel |-> 2, pos |-> <<0, 1>>, used |-> TRUE],
       [templateId |-> "squire", starLevel |-> 1, pos |-> <<1, 1>>, used |-> FALSE] >>

LiveEnemyLine ==
    << [templateId |-> "squire", starLevel |-> 2, pos |-> <<0, 4>>, used |-> TRUE],
       [templateId |-> "apprentice", starLevel |-> 1, pos |-> <<1, 6>>, used |-> FALSE] >>

(* the rosters made of the first 1..n units of a line *)
LiveRosters(line, n) ==
    { SubSeq(line, 1, k) : k \in 1..(IF n < Len(line) THEN n ELSE Len(line)) }

InitLive ==
    \E pr \in LiveRosters(LivePlayerLine, MaxLivePlayers),
       er \in LiveRosters(LiveEnemyLine, MaxLiveEnemies) :
      LET all == pr \o er
      IN  /\ units = [i \in 1..Len(all) |-> InputUnit(all[i], i)]
          /\ buffs = [i \in 1..Len(all) |-> InputBuffs(all[i])]
          /\ inPlayer = [i \in 1..Len(pr) |-> i]
          /\ inEnemy = [i \in 1..Len(er) |-> Len(pr) + i]
          /\ input0 = [units |-> [i \in 1..Len(all) |-> InputUnit(all[i], i)],
                       buffs |-> [i \in 1..Len(all) |-> InputBuffs(all[i])]]
          /\ playerUnits = << >>
          /\ enemyUnits = << >>
          /\ isRunning = FALSE
          /\ tickCount = 0
          /\ tickInterval = FALSE
          /\ result = NewCombatResult
          /\ combatLog = << >>
          /\ occupied = {}
          /\ onCombatEnd = FALSE
          /\ onTick = FALSE
          /\ observed = 0
          /\ resolved = 0
          /\ mode = "new"
          /\ pc = "idle"
          /\ maxTicks = 0
          /\ tickCalls = 0
          /\ lastOp = NoOp
          /\ frame = NoFrame
          /\ gameState = NoGame
          /\ game = NoController
          /\ timers = NoTimers

(* the interval timer of start() fires and calls tick() *)
IntervalTick ==
    /\ mode = "realtime"
    /\ tickInterval
    /\ tickCount < MaxLiveTicks
    /\ \E H \in tick(Cur) : Becomes(H)
    /\ UNCHANGED <<inPlayer, inEnemy, input0, mode, pc, maxTicks, tickCalls,
                   lastOp, frame, gameState, game, timers>>

NextLive ==
    \/ Start
    \/ IntervalTick

(* setInterval fires its callback again and again until clearInterval *)
SpecLive == InitLive /\ [][NextLive]_vars /\ WF_vars(IntervalTick)

----------------------------------------------------------------------------
(* ai.js: a boss round, and the combat fought against it *)

BOSS_ROUND_INTERVAL == 5
FRONT_ROW == 4
BACK_ROW == 7

MaxBossPlayers == 2   \* player units in the combat against a boss round

(* applyBossBuffs(unit, round) on unit u with buffs object bf.  The source *)
(* computes with doubles: scaleFactor = 1 + round / 50, maxHp =            *)
(* floor(maxHp * (1.5 * scaleFactor)), attackBonus += floor(baseAttack *   *)
(* (1.3 - 1) * scaleFactor), armorBonus and magicResistBonus +=            *)
(* floor(10 * scaleFactor).  For the round and the templates of BossBoards *)
(* the integer quotients below are the numbers the doubles give.           *)
applyBossBuffs(u, bf, round) ==
    [unit |-> [u EXCEPT !.maxHp = (u.maxHp * 3 * (50 + round)) \div 100,
                        !.currentHp = Num((u.maxHp * 3 * (50 + round)) \div 100)],
     buffs |-> [bf EXCEPT
                  !.attackBonus = @ + (u.baseAttack * 3 * (50 + round)) \div 500,
                  !.armorBonus = @ + (10 * (50 + round)) \div 50,
                  !.magicResistBonus = @ + (10 * (50 + round)) \div 50]]

(* createBossComposition(1, 1), the composition of the first boss round:   *)
(* one 2-star boss of cost 2 or 3 and one 1-star minion of cost 1 or 2     *)
createBossComposition ==
    { [boss |-> bt, minion |-> mt] :
        bt \in {"knight", "stormArcher"}, mt \in {"squire", "apprentice"} }

(* positionUnits(units) for a boss and a minion: melee units and tanks in  *)
(* the front row, the others in the back row; with no front-line unit the  *)
(* first of the back line (the boss) is moved to the front.  Of the        *)
(* columns generateRowPositions can draw, the centred ones are followed.   *)
isFrontLine(templateId) ==
    \/ UNITS[templateId].range = 1
    \/ \E k \in 1..Len(UNITS[templateId].traits) :
          UNITS[templateId].traits[k] = "tank"

positionUnits(c) ==
    LET bossFront == isFrontLine(c.boss) \/ ~isFrontLine(c.minion)
        minionFront == isFrontLine(c.minion)
    IN  IF bossFront = minionFront
        THEN { [boss |-> <<x, IF bossFront THEN FRONT_ROW ELSE BACK_ROW>>,
                minion |-> <<7 - x, IF bossFront THEN FRONT_ROW ELSE BACK_ROW>>]
               : x \in {3, 4} }
        ELSE { [boss |-> <<3, IF bossFront THEN FRONT_ROW ELSE BACK_ROW>>,
                minion |-> <<3, IF minionFront THEN FRONT_ROW ELSE BACK_ROW>>] }

(* createBossRound(round): the boards it can return, each a boss followed  *)
(* by a minion; for every unit its fields and its buffs object             *)
createBossRound(round, b) ==
    UNION
      { { << applyBossBuffs([NewUnit(c.boss, 2, b + 1) EXCEPT
                                !.pos = p.boss, !.ownerId = "enemy"],
                            ZeroBuffs, round),
             [unit |-> [NewUnit(c.minion, 1, b + 2) EXCEPT
                           !.pos = p.minion, !.ownerId = "enemy"],
              buffs |-> ZeroBuffs] >>
          : p \in positionUnits(c) }
        : c \in createBossComposition }

(* new Combat(), with the player's units and the board that                *)
(* AI.generateBoard returned for the boss round                            *)
InitBoss ==
    \E pr \in LiveRosters(LivePlayerLine, MaxBossPlayers) :
    \E er \in createBossRound(BOSS_ROUND_INTERVAL, Len(pr)) :
      LET n == Len(pr)
          us == [i \in 1..(n + Len(er)) |->
                   IF i <= n THEN InputUnit(pr[i], i) ELSE er[i - n].unit]
          bs == [i \in 1..(n + Len(er)) |->
                   IF i <= n THEN InputBuffs(pr[i]) ELSE er[i - n].buffs]
      IN  /\ units = us
          /\ buffs = bs
          /\ inPlayer = [i \in 1..n |-> i]
          /\ inEnemy = [i \in 1..Len(er) |-> n + i]
          /\ input0 = [units |-> us, buffs |-> bs]
          /\ playerUnits = << >>
          /\ enemyUnits = << >>
          /\ isRunning = FALSE
          /\ tickCount = 0
          /\ tickInterval = FALSE
          /\ result = NewCombatResult
          /\ combatLog = << >>
          /\ occupied = {}
          /\ onCombatEnd = FALSE
          /\ onTick = FALSE
          /\ observed = 0
          /\ resolved = 0
          /\ mode = "new"
          /\ pc = "idle"
          /\ maxTicks = 0
          /\ tickCalls = 0
          /\ lastOp = NoOp
          /\ frame = NoFrame
          /\ gameState = NoGame
          /\ game = NoController
          /\ timers = NoTimers

(* Game.startCombat stores its tick callback, starts the combat, and the   *)
(* timer runs it                                                           *)
NextBoss ==
    \/ SetOnTick
    \/ Start
    \/ TimerTick

SpecBoss == InitBoss /\ [][NextBoss]_vars

----------------------------------------------------------------------------
(* The prep-phase handlers that buy, place, swap, bench and sell units and *)
(* buy XP: SpecRoster                                                      *)

SHOP_SIZE == 5
XP_PURCHASE_COST == 4
XP_PER_PURCHASE == 4

MaxSteps == 4         \* calls of the handlers followed in SpecRoster
MaxDragged == 3       \* the first owned units are those dragged or sold

NoOffer == "none"     \* offers[index] = null

(* the board cells and the bench slots the handlers are called with *)
RosterCells == { <<0, 0>>, <<1, 0>> }
RosterSlots == 0..1

(* Math.pow(b, e) *)
RECURSIVE Pow(_, _)
Pow(b, e) == IF e = 0 THEN 1 ELSE b * Pow(b, e - 1)

isOwned(G, id) == \E i \in 1..Len(G.ownedUnits) : G.ownedUnits[i].id = id

(* getUnitAtPosition(row, col) and getUnitFromBench(slotIndex): the id of  *)
(* the unit, NullId for null                                               *)
getUnitAtPosition(G, pos) ==
    IF pos \in PlayerCells /\ G.playerBoard[pos] # NullId
       /\ isOwned(G, G.playerBoard[pos])
    THEN G.playerBoard[pos] ELSE NullId

getUnitFromBench(G, slotIndex) ==
    IF slotIndex >= 0 /\ slotIndex < BENCH_SIZE
       /\ G.bench[slotIndex + 1] # NullId /\ isOwned(G, G.bench[slotIndex + 1])
    THEN G.bench[slotIndex + 1] ELSE NullId

(* the assignments that put unit id on the cell pos, and in the bench slot *)
(* index, as the swapping handlers write them out                          *)
PutOnBoard(G, id, pos) ==
    [G EXCEPT !.playerBoard[pos] = id,
              !.ownedUnits[OwnedIndex(G, id)].position = pos,
              !.ownedUnits[OwnedIndex(G, id)].isOnBench = FALSE,
              !.ownedUnits[OwnedIndex(G, id)].benchIndex = NoIndex]

PutOnBench(G, id, index) ==
    [G EXCEPT !.bench[index + 1] = id,
              !.ownedUnits[OwnedIndex(G, id)].isOnBench = TRUE,
              !.ownedUnits[OwnedIndex(G, id)].benchIndex = index,
              !.ownedUnits[OwnedIndex(G, id)].position = NoPos]

(* the second unit of a swap in Game.onUnitPlacement and                   *)
(* Game.onUnitBenchPlacement goes to the place the first one left; on the  *)
(* board its benchIndex is left as removeUnitFromCurrentLocation set it    *)
PutWhereOtherWas(G, id, wasOnBench, originalBenchIndex, originalPos) ==
    IF wasOnBench
    THEN PutOnBench(G, id, originalBenchIndex)
    ELSE IF originalPos # NoPos
    THEN [G EXCEPT !.playerBoard[originalPos] = id,
                   !.ownedUnits[OwnedIndex(G, id)].position = originalPos,
                   !.ownedUnits[OwnedIndex(G, id)].isOnBench = FALSE]
    ELSE G

(* UIController.swapUnits(unit1, unit2) *)
swapUnits(Gin, id1, id2) ==
    CHOOSE out \in
      { LET pos1 == Owned(G, id1).position
            bench1 == IF Owned(G, id1).isOnBench THEN Owned(G, id1).benchIndex
                      ELSE NoIndex
            pos2 == Owned(G, id2).position
            bench2 == IF Owned(G, id2).isOnBench THEN Owned(G, id2).benchIndex
                      ELSE NoIndex
            G1 == removeUnitFromCurrentLocation(
                    removeUnitFromCurrentLocation(G, id1), id2)
            G2 == IF pos2 # NoPos THEN PutOnBoard(G1, id1, pos2)
                  ELSE IF bench2 # NoIndex THEN PutOnBench(G1, id1, bench2)
                  ELSE G1
        IN  IF pos1 # NoPos THEN PutOnBoard(G2, id2, pos1)
            ELSE IF bench1 # NoIndex THEN PutOnBench(G2, id2, bench1)
            ELSE G2
        : G \in {Gin} } : TRUE

(* UIController.handleDrop(e, target, position) with draggedUnit the owned *)
(* unit id: target "board" with a cell, or "bench" with a slot index       *)
handleDrop(Gin, id, target, position) ==
    CHOOSE out \in
      { IF ~isPrep(G) THEN G
        ELSE IF target = "board"
        THEN IF position \notin PlayerCells THEN G
             ELSE IF Owned(G, id).isOnBench /\ TeamSize(G) >= G.level
                     /\ getUnitAtPosition(G, position) = NullId
             THEN G
             ELSE IF getUnitAtPosition(G, position) \notin {NullId, id}
             THEN swapUnits(G, id, getUnitAtPosition(G, position))
             ELSE placeUnitOnBoard(G, id, position)
        ELSE IF getUnitFromBench(G, position) \notin {NullId, id}
             THEN swapUnits(G, id, getUnitFromBench(G, position))
             ELSE addUnitToBench(G, id).G
        : G \in {Gin} } : TRUE

(* Game.onUnitPlacement(unitId, row, col) with pos = <<col, row>> *)
onUnitPlacement(Gin, id, pos) ==
    CHOOSE out \in
      { IF ~isPrep(G) \/ ~isOwned(G, id) THEN G
        ELSE IF G.playerBoard[pos] \notin {NullId, id}
        THEN IF isOwned(G, G.playerBoard[pos]) /\ Owned(G, id).position # NoPos
             THEN PutWhereOtherWas(
                    PutOnBoard(
                      removeUnitFromCurrentLocation(
                        removeUnitFromCurrentLocation(G, id),
                        G.playerBoard[pos]),
                      id, pos),
                    G.playerBoard[pos], Owned(G, id).isOnBench,
                    Owned(G, id).benchIndex, Owned(G, id).position)
             ELSE G
        ELSE placeUnitOnBoard(G, id, pos)
        : G \in {Gin} } : TRUE

(* Game.onUnitBenchPlacement(unitId, benchIndex) *)
onUnitBenchPlacement(Gin, id, benchIndex) ==
    CHOOSE out \in
      { IF ~isPrep(G) \/ ~isOwned(G, id) THEN G
        ELSE IF G.bench[benchIndex + 1] \notin {NullId, id}
        THEN IF isOwned(G, G.bench[benchIndex + 1])
             THEN PutWhereOtherWas(
                    PutOnBench(
                      removeUnitFromCurrentLocation(
                        removeUnitFromCurrentLocation(G, id),
                        G.bench[benchIndex + 1]),
                      id, benchIndex),
                    G.bench[benchIndex + 1], Owned(G, id).isOnBench,
                    Owned(G, id).benchIndex, Owned(G, id).position)
             ELSE G
        ELSE addUnitToBench(G, id).G
        : G \in {Gin} } : TRUE

(* a sellUnit that returns one copy to the pool whatever the star level *)
sellUnit_oneCopy(Gin, id) ==
    CHOOSE out \in
      { IF ~isOwned(G, id) THEN G
        ELSE LET unit == Owned(G, id)
                 sellValue == ShopCost[unit.unitId]
                                * Pow(COPIES_TO_UPGRADE, unit.starLevel - 1)
             IN  addGold(
                   DeleteOwned(
                     removeUnitFromCurrentLocation(
                       [G EXCEPT !.unitPool[unit.unitId] = @ + 1], id),
                     id),
                   sellValue)
        : G \in {Gin} } : TRUE

(* GameState.sellUnit(unit); SELL_REFUND_RATE is 1.0 *)
sellUnit(Gin, id) ==
    CHOOSE out \in
      { IF ~isOwned(G, id) THEN G
        ELSE LET unit == Owned(G, id)
                 sellValue == ShopCost[unit.unitId]
                                * Pow(COPIES_TO_UPGRADE, unit.starLevel - 1)
                 unitsReturned == Pow(COPIES_TO_UPGRADE, unit.starLevel - 1)
             IN  addGold(
                   DeleteOwned(
                     removeUnitFromCurrentLocation(
                       [G EXCEPT !.unitPool[unit.unitId] = @ + unitsReturned],
                       id),
                     id),
                   sellValue)
        : G \in {Gin} } : TRUE

(* Game.sellUnit(unitId) -> Shop.sellUnit(unit) -> GameState.sellUnit *)
gameSellUnit(G, id) ==
    IF ~isPrep(G) \/ ~isOwned(G, id) THEN G ELSE sellUnit(G, id)

(* GameState.buyXP() *)
buyXP(G) ==
    IF G.level >= 9 THEN G
    ELSE IF G.gold < XP_PURCHASE_COST THEN G
    ELSE gainXP(spendGold(G, XP_PURCHASE_COST), XP_PER_PURCHASE)

(* Shop.buyUnit(index): the new state, the offers and the result object *)
shopBuyUnit(Gin, offersIn, index) ==
    CHOOSE out \in
      { IF index < 0 \/ index >= SHOP_SIZE
        THEN [G |-> G, offers |-> offers, ret |-> Refused(G).ret]
        ELSE IF offers[index + 1] = NoOffer
        THEN [G |-> G, offers |-> offers, ret |-> Refused(G).ret]
        ELSE CHOOSE res \in
               { [G |-> b.G,
                  offers |-> IF b.ret.success
                             THEN [offers EXCEPT ![index + 1] = NoOffer]
                             ELSE offers,
                  ret |-> b.ret]
                 : b \in {buyUnit(G, offers[index + 1])} } : TRUE
        : G \in {Gin}, offers \in {offersIn} } : TRUE

(* the copies of template t that went into the units of the Map owned:     *)
(* one per 1-star unit, COPIES_TO_UPGRADE per 2-star unit, and so on       *)
RECURSIVE copiesIn(_, _)
copiesIn(owned, t) ==
    IF owned = << >> THEN 0
    ELSE (IF Head(owned).unitId = t
          THEN Pow(COPIES_TO_UPGRADE, Head(owned).starLevel - 1) ELSE 0)
         + copiesIn(Tail(owned), t)

(* a GameState in the prep phase of a later round: the units of list, in   *)
(* the order they were bought, each on its cell or in its bench slot, and  *)
(* the pool without the copies that were bought for them                   *)
RosterGame(list, level, xp, gold) ==
    LET owned == [i \in 1..Len(list) |->
                    [id |-> i, unitId |-> list[i].unitId,
                     starLevel |-> list[i].starLevel,
                     position |-> list[i].position,
                     isOnBench |-> list[i].benchIndex # NoIndex,
                     benchIndex |-> list[i].benchIndex]]
    IN  [NewGame EXCEPT
           !.ownedUnits = owned,
           !.nextId = Len(list) + 1,
           !.playerBoard =
              [c \in PlayerCells |->
                 IF \E i \in 1..Len(list) : list[i].position = c
                 THEN CHOOSE i \in 1..Len(list) : list[i].position = c
                 ELSE NullId],
           !.bench =
              [s \in 1..BENCH_SIZE |->
                 IF \E i \in 1..Len(list) : list[i].benchIndex = s - 1
                 THEN CHOOSE i \in 1..Len(list) : list[i].benchIndex = s - 1
                 ELSE NullId],
           !.unitPool = [t \in ShopTemplates |->
                           UNIT_POOL_SIZE[ShopCost[t]] - copiesIn(owned, t)],
           !.level = level, !.xp = xp, !.gold = gold]

Held(unitId, starLevel, position, benchIndex) ==
    [unitId |-> unitId, starLevel |-> starLevel, position |-> position,
     benchIndex |-> benchIndex]

(* a new game; a roster one purchase away from a 3-star unit; a roster     *)
(* that holds every copy of the squire, with gold for one purchase; a full *)
(* bench                                                                   *)
RosterGames ==
    { NewGame,
      RosterGame(<< Held("squire", 2, NoPos, 0), Held("squire", 2, <<0, 0>>, NoIndex),
                    Held("squire", 1, NoPos, 1), Held("squire", 1, NoPos, 2) >>,
                 2, 4, 10),
      RosterGame(<< Held("squire", 3, NoPos, 0), Held("squire", 3, <<0, 0>>, NoIndex),
                    Held("squire", 3, <<1, 0>>, NoIndex),
                    Held("squire", 1, NoPos, 1), Held("squire", 1, NoPos, 2) >>,
                 3, 8, 1),
      RosterGame(<< Held("squire", 3, NoPos, 0), Held("squire", 3, NoPos, 1),
                    Held("squire", 2, NoPos, 2), Held("squire", 2, NoPos, 3),
                    Held("squire", 1, NoPos, 4), Held("apprentice", 2, NoPos, 5),
                    Held("apprentice", 2, NoPos, 6),
                    Held("apprentice", 1, NoPos, 7),
                    Held("apprentice", 1, NoPos, 8) >>,
                 3, 8, 10) }

(* the offers of the round, as generateShop left them *)
OfferRows ==
    { << "squire", NoOffer, "apprentice", NoOffer, "squire" >> }

(* the Game object's shop: its offers, and the handler calls made so far  *)
NewShop(offers) == [present |-> TRUE, offers |-> offers, steps |-> 0]

(* the owned units the handlers are called with *)
Dragged(G) ==
    1..(IF Len(G.ownedUnits) < MaxDragged THEN Len(G.ownedUnits) ELSE MaxDragged)

InitRoster ==
    /\ units = << >>
    /\ buffs = << >>
    /\ inPlayer = << >>
    /\ inEnemy = << >>
    /\ input0 = [units |-> << >>, buffs |-> << >>]
    /\ playerUnits = << >>
    /\ enemyUnits = << >>
    /\ isRunning = FALSE
    /\ tickCount = 0
    /\ tickInterval = FALSE
    /\ result = NewCombatResult
    /\ combatLog = << >>
    /\ occupied = {}
    /\ onCombatEnd = FALSE
    /\ onTick = FALSE
    /\ observed = 0
    /\ resolved = 0
    /\ mode = "roster"
    /\ pc = "idle"
    /\ maxTicks = 0
    /\ tickCalls = 0
    /\ lastOp = [op |-> "none", arg |-> "none",
                 ret |-> [success |-> FALSE, upgraded |-> FALSE], n |-> 0]
    /\ frame = NoFrame
    /\ gameState \in RosterGames
    /\ \E offers \in OfferRows : game = NewShop(offers)
    /\ timers = NoTimers

RosterUnchanged ==
    UNCHANGED <<units, buffs, inPlayer, inEnemy, input0, playerUnits,
                enemyUnits, isRunning, tickCount, tickInterval, result,
                combatLog, occupied, onCombatEnd, onTick, observed, resolved,
                mode, pc, maxTicks, tickCalls, frame, timers>>

NoResult == [success |-> FALSE, upgraded |-> FALSE]

(* a click on a shop slot: Game.buyUnit(index) -> Shop.buyUnit(index) *)
ClickBuy ==
    /\ mode = "roster"
    /\ game.steps < MaxSteps
    /\ \E index \in 0..(SHOP_SIZE - 1) :
         \E b \in {shopBuyUnit(gameState, game.offers, index)} :
           /\ gameState' = b.G
           /\ game' = [game EXCEPT !.offers = b.offers, !.steps = @ + 1]
           /\ lastOp' = [op |-> "buyUnit", arg |-> "none", ret |-> b.ret, n |-> 0]
    /\ RosterUnchanged

(* the renderer reports a unit dropped on a board cell *)
PlaceOnCell ==
    /\ mode = "roster"
    /\ game.steps < MaxSteps
    /\ \E i \in Dragged(gameState), pos \in RosterCells :
         gameState' = onUnitPlacement(gameState, gameState.ownedUnits[i].id, pos)
    /\ lastOp' = [op |-> "drop", arg |-> "none", ret |-> NoResult, n |-> 0]
    /\ game' = [game EXCEPT !.steps = @ + 1]
    /\ RosterUnchanged

(* the renderer reports a unit dropped on a bench slot *)
PlaceOnBench ==
    /\ mode = "roster"
    /\ game.steps < MaxSteps
    /\ \E i \in Dragged(gameState), slot \in RosterSlots :
         gameState' = onUnitBenchPlacement(gameState,
                                           gameState.ownedUnits[i].id, slot)
    /\ lastOp' = [op |-> "drop", arg |-> "none", ret |-> NoResult, n |-> 0]
    /\ game' = [game EXCEPT !.steps = @ + 1]
    /\ RosterUnchanged

(* the UI controller's drop handler, for a unit dragged from the board or  *)
(* the bench                                                               *)
Drop ==
    /\ mode = "roster"
    /\ game.steps < MaxSteps
    /\ \E i \in Dragged(gameState) :
         \/ \E pos \in RosterCells :
              gameState' = handleDrop(gameState, gameState.ownedUnits[i].id,
                                      "board", pos)
         \/ \E slot \in RosterSlots :
              gameState' = handleDrop(gameState, gameState.ownedUnits[i].id,
                                      "bench", slot)
    /\ lastOp' = [op |-> "drop", arg |-> "none", ret |-> NoResult, n |-> 0]
    /\ game' = [game EXCEPT !.steps = @ + 1]
    /\ RosterUnchanged

(* Game.sellUnit(unitId) for an owned unit *)
Sell ==
    /\ mode = "roster"
    /\ \E i \in Dragged(gameState) :
         gameState' = gameSellUnit(gameState, gameState.ownedUnits[i].id)
    /\ lastOp' = [op |-> "sellUnit", arg |-> "none", ret |-> NoResult, n |-> 0]
    /\ game.steps < MaxSteps
    /\ game' = [game EXCEPT !.steps = @ + 1]
    /\ RosterUnchanged

(* a click on the XP button: Game.buyXP() *)
ClickBuyXP ==
    /\ mode = "roster"
    /\ game.steps < MaxSteps
    /\ isPrep(gameState)
    /\ gameState' = buyXP(gameState)
    /\ game' = [game EXCEPT !.steps = @ + 1]
    /\ lastOp' = [op |-> "buyXP", arg |-> "none", ret |-> NoResult, n |-> 0]
    /\ RosterUnchanged

NextRoster ==
    \/ ClickBuy
    \/ PlaceOnCell
    \/ PlaceOnBench
    \/ Drop
    \/ Sell
    \/ ClickBuyXP

SpecRoster == InitRoster /\ [][NextRoster]_vars

----------------------------------------------------------------------------
(* Properties *)

(* C1: at every moment of a combat, every combatant of the engine has     *)
(* 0 <= currentHp <= effectiveMaxHp and 0 <= currentMana <= maxMana,       *)
(* whatever HP and buffs the units passed in carried.                      *)
C1_HpManaInRange ==
    \A k \in 1..Len(playerUnits \o enemyUnits) :
      LET r == (playerUnits \o enemyUnits)[k]
          u == units[r]
      IN  /\ ~u.currentHp.nan
          /\ 0 <= u.currentHp.v
          /\ u.currentHp.v <= effectiveMaxHp(Cur, r)
          /\ 0 <= u.currentMana
          /\ u.currentMana <= u.maxMana

C3_DeadNeverActsNorIsTargeted ==
    /\ [](/\ \A k \in 1..Len(playerUnits \o enemyUnits) :
               LET r == (playerUnits \o enemyUnits)[k]
                   enemies == IF units[r].ownerId = "player"
                              THEN enemyUnits ELSE playerUnits
                   t == U(findTarget(Cur, r, enemies), r).target
               IN  t = NullRef \/ isAlive(Cur, t)
          /\ \A i, j \in 1..Len(combatLog) :
               (/\ i < j
                /\ combatLog[i].type = "attack"
                /\ combatLog[i].data.defenderDied)
               => LET v == combatLog[i].data.defender
                      e == combatLog[j]
                  IN  /\ e.type = "attack"
                         => e.data.attacker # v /\ e.data.defender # v
                      /\ e.type = "move" => e.data.unit # v
                      /\ e.type = "ability" => e.data.caster # v)
    /\ [][\A k \in 1..Len(playerUnits \o enemyUnits) :
            LET v == (playerUnits \o enemyUnits)[k]
            IN  ~isAlive(Cur, v) => units'[v] = units[v]]_vars

(* C3 witness: a combatant died in one tick and the others went on acting  *)
(* in a later tick                                                         *)
C3_ActivityAfterADeath ==
    \E i, j \in 1..Len(combatLog) :
      /\ i < j
      /\ combatLog[i].type = "attack"
      /\ combatLog[i].data.defenderDied
      /\ combatLog[j].type \in {"attack", "move"}
      /\ combatLog[j].tick > combatLog[i].tick
      /\ ~isAlive(Cur, combatLog[i].data.defender)

(* C4: runSync processes at most maxTicks ticks, each iteration of its     *)
(* loop advancing the tick counter by one, and when it has returned the    *)
(* result has totalTicks <= maxTicks and a winner, and the engine is not   *)
(* running.                                                                *)
C4_RunSyncBounded ==
    /\ [](mode = "sync"
          => /\ tickCount <= maxTicks
             /\ pc = "returned"
                => /\ result.totalTicks <= maxTicks
                   /\ result.winner \in {"player", "enemy", "draw"}
                   /\ ~isRunning
                   /\ ~tickInterval)
    /\ [][(mode = "sync" /\ pc = "loop" /\ pc' = "loop")
          => tickCount' = tickCount + 1]_vars

(* C4 witness: runSync returned after running into a cap of two ticks or   *)
(* more                                                                    *)
C4_ReturnedAtTheCap ==
    /\ mode = "sync"
    /\ pc = "returned"
    /\ maxTicks >= 2
    /\ result.totalTicks = maxTicks
    /\ result.winner = "draw"

(* C5: for two non-empty rosters, a draw returned by runSync implies that  *)
(* both sides still have a living combatant.                               *)
C5_DrawImpliesBothSidesAlive ==
    (/\ mode = "sync"
     /\ pc = "returned"
     /\ Len(inPlayer) > 0
     /\ Len(inEnemy) > 0
     /\ result.winner = "draw")
    => /\ Len(aliveOf(Cur, playerUnits)) > 0
       /\ Len(aliveOf(Cur, enemyUnits)) > 0

(* C6: when the winner is a side, the other side has no living combatant,  *)
(* the winner has at least one, the damage charged to the loser is 2 plus  *)
(* the star levels of the winner's survivors and the winner is charged 0;  *)
(* when the winner is draw both damage fields are 0.                       *)
C6_WinnerAndDamageAgree ==
    LET alivePlayerUnits == aliveOf(Cur, playerUnits)
        aliveEnemyUnits == aliveOf(Cur, enemyUnits)
        stars(us) == Len(us)
                     + Cardinality({i \in 1..Len(us) :
                                      units[us[i]].starLevel = 2})
                     + 2 * Cardinality({i \in 1..Len(us) :
                                          units[us[i]].starLevel = 3})
    IN  /\ result.winner = "player"
           => /\ Len(aliveEnemyUnits) = 0
              /\ Len(alivePlayerUnits) >= 1
              /\ result.survivingPlayerUnits = alivePlayerUnits
              /\ result.damageToEnemy = 2 + stars(alivePlayerUnits)
              /\ result.damageToPlayer = 0
        /\ result.winner = "enemy"
           => /\ Len(alivePlayerUnits) = 0
              /\ Len(aliveEnemyUnits) >= 1
              /\ result.survivingEnemyUnits = aliveEnemyUnits
              /\ result.damageToPlayer = 2 + stars(aliveEnemyUnits)
              /\ result.damageToEnemy = 0
        /\ result.winner = "draw"
           => result.damageToPlayer = 0 /\ result.damageToEnemy = 0

(* C6 witness: the player won with a two-star survivor *)
C6_WonWithATwoStarSurvivor ==
    /\ result.winner = "player"
    /\ \E i \in 1..Len(result.survivingPlayerUnits) :
         units[result.survivingPlayerUnits[i]].starLevel = 2
    /\ result.damageToEnemy >= 4

(* C7: with an empty roster the combat completes with totalTicks = 0; the  *)
(* winner is the side whose roster is not empty, or draw with no damage    *)
(* when both are empty.                                                    *)
C7_EmptyRosterEndsAtOnce ==
    (/\ result.winner # "null"
     /\ mode = "sync" => pc = "returned"
     /\ Len(inPlayer) = 0 \/ Len(inEnemy) = 0)
    => /\ result.totalTicks = 0
       /\ result.winner =
            IF Len(inPlayer) = 0 /\ Len(inEnemy) = 0 THEN "draw"
            ELSE IF Len(inPlayer) = 0 THEN "enemy" ELSE "player"
       /\ result.winner = "draw"
          => result.damageToPlayer = 0 /\ result.damageToEnemy = 0

(* C8: when one roster is not empty but none of its units is on the board  *)
(* and the other side has a unit on the board, runSync returns a loss for  *)
(* the side without positions, with no tick processed.                     *)
C8_UnpositionedSideLoses ==
    LET positioned(us) == \E i \in 1..Len(us) : input0.units[us[i]].pos # NoPos
    IN  (mode = "sync" /\ pc = "returned")
        => /\ (Len(inPlayer) > 0 /\ ~positioned(inPlayer) /\ positioned(inEnemy))
              => result.winner = "enemy" /\ result.totalTicks = 0
           /\ (Len(inEnemy) > 0 /\ ~positioned(inEnemy) /\ positioned(inPlayer))
              => result.winner = "player" /\ result.totalTicks = 0

(* C9: start() and runSync() leave every unit passed in, and its buffs,    *)
(* exactly as it was when the engine was constructed.                      *)
C9_InputsUntouched ==
    \A i \in 1..Len(input0.units) :
      /\ units[i] = input0.units[i]
      /\ buffs[units[i].buffs] = input0.buffs[input0.units[i].buffs]

(* C9 witness: a combat was decided in which a clone was struck and a      *)
(* clone moved, with a clone's buffs differing from those passed in        *)
C9_CombatChangedTheClones ==
    /\ result.winner \in {"player", "enemy"}
    /\ \E i \in 1..Len(combatLog) : combatLog[i].type = "move"
    /\ \E k \in 1..Len(playerUnits \o enemyUnits) :
         units[(playerUnits \o enemyUnits)[k]].currentHp.nan
    /\ \E k \in 1..Len(inPlayer \o inEnemy) :
         buffs[units[(playerUnits \o enemyUnits)[k]].buffs]
           # input0.buffs[input0.units[(inPlayer \o inEnemy)[k]].buffs]

(* C10: a call of tick() on an engine that is not running changes neither  *)
(* tickCount, the rosters, the units, the log nor the result, and does not *)
(* complete the combat a second time.                                      *)
C10_LateTickChangesNothing ==
    [][(mode # "new" /\ ~isRunning /\ tickCalls' # tickCalls)
       => UNCHANGED <<units, buffs, playerUnits, enemyUnits, tickCount,
                      combatLog, result, resolved, isRunning, tickInterval,
                      occupied>>]_vars

(* C10 witness: tick() was called after a combat that ran had ended *)
C10_TickCalledAfterTheEnd ==
    /\ tickCalls >= 1
    /\ result.winner # "null"
    /\ result.totalTicks >= 1
    /\ ~isRunning

(* a real-time combat that was stopped before it ended *)
Stopped == mode = "realtime" /\ ~isRunning /\ result.winner = "null"

(* C11: once stop() was called on a running real-time combat that had not  *)
(* ended, the timer is halted, the combat stays stopped, no call of tick() *)
(* changes tickCount, the combatants, the log or the result, the tick      *)
(* callback is not called again and the promise of start() is never        *)
(* resolved.                                                               *)
C11_StoppedStaysSilent ==
    [][Stopped
       => /\ ~tickInterval
          /\ resolved = 0
          /\ Stopped'
          /\ UNCHANGED <<units, buffs, playerUnits, enemyUnits, tickCount,
                         combatLog, occupied, result, observed, resolved,
                         tickInterval>>]_vars

(* C11 witness: a combat with a tick callback was stopped after a tick had *)
(* been observed, and tick() was called once more afterwards               *)
C11_TickAfterStop ==
    /\ Stopped
    /\ onTick
    /\ observed >= 1
    /\ tickCount >= 1
    /\ tickCalls >= 1

(* The combat state of an engine without what only the real-time driver    *)
(* keeps: the timer, the stored resolve callback and its calls.  It holds  *)
(* the rosters, every unit with position, HP, mana and target, the log,    *)
(* the tick counter and the result.                                        *)
AsSync(H) ==
    [H EXCEPT !.tickInterval = FALSE, !.onCombatEnd = FALSE, !.resolved = 0]

Duel ==
    /\ Len(playerUnits) = 1 /\ Len(enemyUnits) = 1
    /\ getDistanceTo(Cur, playerUnits[1], enemyUnits[1])
         <= Min(getEffectiveRange(Cur, playerUnits[1]),
                getEffectiveRange(Cur, enemyUnits[1]))
    /\ B(Cur, playerUnits[1]).critChance = 0
    /\ B(Cur, enemyUnits[1]).critChance = 0

(* C13: for one unit a side, each in the other's range and without         *)
(* critical strikes, all the runs of runSync, whatever the shuffles, end   *)
(* with the same totalTicks and the same total damage dealt by each unit.  *)
C13_DuelIndependentOfShuffle ==
    (mode = "sync" /\ pc = "loop" /\ tickCount = 0 /\ Duel)
    => \A R1, R2 \in runSyncLoop({Cur}, maxTicks) :
         /\ R1.result.totalTicks = R2.result.totalTicks
         /\ \A r \in {playerUnits[1], enemyUnits[1]} :
              damageDealt(R1.log, 1, r) = damageDealt(R2.log, 1, r)

(* C14: every attack without a critical strike hands the attacker's        *)
(* effective attack, baseAttack + buffs.attackBonus, to takeDamage: the    *)
(* damage it records is the number takeDamage returns for that amount and  *)
(* the defender's armor, and the defender's HP stays a number.             *)
C14_AttackHandsEffectiveAttack ==
    \A i \in 1..Len(combatLog) :
      (combatLog[i].type = "attack" /\ ~combatLog[i].data.isCrit)
      => LET e == combatLog[i].data
             handed == attackGetter(Cur, e.attacker)
             dr == B(Cur, e.defender).damageReduction
             mitigated == Mitigate(handed.v, effectiveArmor(Cur, e.defender))
             reduced == IF dr > 0 THEN (mitigated * (100 - dr)) \div 100
                        ELSE mitigated
         IN  /\ ~e.physicalDamage.nan
             /\ ~e.defenderHp.nan
             /\ e.physicalDamage = Num(Max(1, reduced))

(* C15: takeDamage(amount, type) on a living unit, for a non-negative      *)
(* integer amount, deals                                                   *)
(* floor(floor(amount * 100 / (D + 100)) * (100 - R) / 100), D the         *)
(* effective armor or magic resist and R the damageReduction buff, raised  *)
(* to 1 only when amount > 0: it returns that number and takes it from     *)
(* currentHp, so takeDamage(0, type) returns 0 and leaves currentHp alone. *)
C15_TakeDamageAmount ==
    [][(/\ lastOp'.op = "takeDamage"
        /\ lastOp'.n = lastOp.n + 1
        /\ isAlive(Cur, 1)
        /\ ~lastOp'.arg.amount.nan)
       => LET amount == lastOp'.arg.amount.v
              D == IF lastOp'.arg.type = "physical" THEN effectiveArmor(Cur, 1)
                   ELSE effectiveMagicResist(Cur, 1)
              R == B(Cur, 1).damageReduction
              mitigated == (((amount * 100) \div (D + 100)) * (100 - R)) \div 100
              dealt == IF amount > 0 THEN Max(1, mitigated) ELSE mitigated
          IN  /\ lastOp'.ret = Num(dealt)
              /\ units'[1].currentHp
                   = Num(Max(0, units[1].currentHp.v - dealt))]_vars

(* C16: the buffs and the range each player combatant holds when the first *)
(* tick starts are those the same player roster gets against an empty     *)
(* enemy roster, so they do not depend on the enemy roster; the same holds *)
(* for the enemy combatants and the player roster.                         *)
C16_TraitsAreSideLocal ==
    [][(mode = "new" /\ mode' \in {"realtime", "sync"})
       => \E P \in {Prepare(Cur, inPlayer, << >>)},
             E \in {Prepare(Cur, << >>, inEnemy)} :
            /\ \A i \in 1..Len(inPlayer) :
                 /\ buffs'[units'[playerUnits'[i]].buffs] = B(P, P.pl[i])
                 /\ units'[playerUnits'[i]].range = U(P, P.pl[i]).range
            /\ \A i \in 1..Len(inEnemy) :
                 /\ buffs'[units'[enemyUnits'[i]].buffs] = B(E, E.en[i])
                 /\ units'[enemyUnits'[i]].range = U(E, E.en[i]).range]_vars

(* C16 witness: a combat is about to have its first tick, a trait is       *)
(* active for the player's side and not for the enemy's side, which has a  *)
(* unit carrying the same trait                                            *)
C16_OneSideHasASynergy ==
    /\ mode \in {"realtime", "sync"}
    /\ tickCount = 0 /\ isRunning
    /\ \E i \in 1..Len(playerUnits), j \in 1..Len(enemyUnits) :
         /\ B(Cur, playerUnits[i]) # ZeroBuffs
         /\ B(Cur, enemyUnits[j]) = ZeroBuffs
         /\ \E k \in 1..Len(traitsOf(units[enemyUnits[j]])) :
              \E l \in 1..Len(traitsOf(units[playerUnits[i]])) :
                traitsOf(units[enemyUnits[j]])[k]
                  = traitsOf(units[playerUnits[i]])[l]

(* the number of living units of the roster that stand on the board and    *)
(* carry the trait                                                         *)
OnBoardCarriers(H, roster, traitId) ==
    Cardinality({ i \in 1..Len(roster) :
                    /\ isAlive(H, roster[i])
                    /\ isOnBoard(H, roster[i])
                    /\ \E k \in 1..Len(traitsOf(U(H, roster[i]))) :
                         traitsOf(U(H, roster[i]))[k] = traitId })

(* C17: in the trait computation at the start of a combat only living      *)
(* combatants on the board count and receive a bonus: a combatant without  *)
(* a position has all its buffs at zero when the first tick starts, and    *)
(* every count the engine activated a trait with is the number of living   *)
(* on-board carriers of that trait in one of the rosters.                  *)
C17_OnlyBoardUnitsCount ==
    (mode \in {"realtime", "sync"} /\ tickCount = 0 /\ isRunning)
    => /\ \A i \in 1..Len(playerUnits \o enemyUnits) :
            ~isOnBoard(Cur, (playerUnits \o enemyUnits)[i])
            => B(Cur, (playerUnits \o enemyUnits)[i]) = ZeroBuffs
       /\ \A i \in 1..Len(combatLog) :
            combatLog[i].type = "trait_active"
            => \E roster \in {playerUnits, enemyUnits} :
                 combatLog[i].data.count
                   = OnBoardCarriers(Cur, roster, combatLog[i].data.trait)

(* C18: for every trait and count c the bonus activated is the bundle of   *)
(* the highest threshold in {2, 4} that c meets, none for c < 2, the       *)
(* bundle of 2 for c in {2, 3}, the bundle of 4 for c >= 4, and            *)
(* getTraitBonus and TraitSystem._calculateActiveTraits both give it.      *)
C18_HighestThresholdMet ==
    (mode = "bonus" /\ lastOp.op # "none")
    => LET t == lastOp.arg.trait
           c == lastOp.arg.count
           expected == IF c < 2 THEN NoBonus
                       ELSE IF c < 4 THEN bonusesAt(t, 2)
                       ELSE bonusesAt(t, 4)
       IN  /\ bonusesAt(t, 2).threshold = 2
           /\ bonusesAt(t, 4).threshold = 4
           /\ lastOp.op = "getTraitBonus" => lastOp.ret = expected
           /\ lastOp.op = "_calculateActiveTraits"
              => lastOp.ret = IF expected = NoBonus THEN {}
                              ELSE { [trait |-> t, count |-> c,
                                      threshold |-> expected.threshold,
                                      bonus |-> expected.bonus] }
           /\ calculateActiveTraits([x \in {t} |-> c])
                = IF getTraitBonus(t, c) = NoBonus THEN {}
                  ELSE { [trait |-> t, count |-> c,
                          threshold |-> getTraitBonus(t, c).threshold,
                          bonus |-> getTraitBonus(t, c).bonus] }

(* C18 witness: getTraitBonus was called with a count above 4 and gave the *)
(* bundle of threshold 4                                                   *)
C18_CountAboveFour ==
    /\ mode = "bonus"
    /\ lastOp.op = "getTraitBonus"
    /\ lastOp.arg.count > 4
    /\ lastOp.ret.threshold = 4

(* C19: traits are counted per board unit, not per template: the active    *)
(* traits and thresholds that GameState.getActiveTraits reports for a      *)
(* board are those the combat engine activates for the units of that       *)
(* board, so two copies of one template count as 2.                        *)
C19_PlanningViewCountsUnits ==
    (mode = "board" /\ lastOp.op = "getActiveTraits")
    => { [trait |-> a.trait, threshold |-> a.threshold] : a \in lastOp.ret }
         = { [trait |-> a.trait, threshold |-> a.threshold]
             : a \in activatedTraits(Cur, getUnitsOnBoard(Cur, inPlayer)) }

(* what a bonus bundle adds to the buff key k *)
BundleValue(bonus, k) ==
    LET from == { bk \in (DOMAIN bonus) \cap (DOMAIN bonusMapping) :
                    bonusMapping[bk] = k }
    IN  IF from = {} THEN 0 ELSE bonus[CHOOSE bk \in from : TRUE]

(* the sum, for the buff key k, of the bundles of the traits that unit r   *)
(* carries (from its j-th trait on) and that are active for its roster: a  *)
(* trait is active with the bundle of the highest threshold that the       *)
(* number of its living carriers on the board meets                        *)
RECURSIVE SumOfBundles(_, _, _, _, _)
SumOfBundles(H, roster, r, j, k) ==
    IF j > Len(traitsOf(U(H, r))) THEN 0
    ELSE LET traitId == traitsOf(U(H, r))[j]
             active == getTraitBonus(traitId,
                                     OnBoardCarriers(H, roster, traitId))
         IN  (IF active = NoBonus THEN 0 ELSE BundleValue(active.bonus, k))
             + SumOfBundles(H, roster, r, j + 1, k)

(* C20: when the first tick of a combat starts, the buffs of each          *)
(* combatant are exactly the sum of the bundles of the traits it carries   *)
(* that are active on its side, whatever buffs the unit passed in held.    *)
C20_BuffsAreTheActiveBundles ==
    (mode \in {"realtime", "sync"} /\ tickCount = 0 /\ isRunning)
    => \A roster \in {playerUnits, enemyUnits} :
         \A i \in 1..Len(roster) :
           B(Cur, roster[i])
             = [k \in DOMAIN ZeroBuffs |-> SumOfBundles(Cur, roster, roster[i], 1, k)]

(* C21: resetting and applying the trait bonuses twice in succession on    *)
(* the same roster leaves every unit as one application did, buffs and     *)
(* attack range included, for Combat.applyTraitBonuses and for             *)
(* TraitSystem.applyBonuses.                                               *)
C21_ApplyingTwiceChangesNothing ==
    [][(/\ mode = "board"
        /\ lastOp.op \in {"applyTraitBonuses", "applyBonuses"}
        /\ lastOp'.op = lastOp.op
        /\ lastOp'.n = lastOp.n + 1)
       => units' = units /\ buffs' = buffs]_vars

(* the unit r is the one the loop of tick() processes in this step *)
Processes(r) ==
    /\ frame.active
    /\ frame'.active
    /\ r \in frame.todo
    /\ frame'.todo = frame.todo \ {r}

(* r gets as far as the target check of the loop: it is alive and, after   *)
(* this tick's decay of its status effects, not stunned                    *)
ReachesTargeting(r) ==
    isAlive(Cur, r) /\ canAct(updateStatusEffects(Cur, r), r)

(* r has no living target when its turn comes *)
NeedsTarget(r) ==
    \/ units[r].target = NullRef
    \/ ~isAlive(Cur, units[r].target)

(* the enemies of r that are alive and on the board, in roster order *)
LivingOnBoardEnemies(r) ==
    SelectSeq(IF units[r].ownerId = "player" THEN enemyUnits ELSE playerUnits,
              LAMBDA e : isAlive(Cur, e) /\ isOnBoard(Cur, e))

(* the first of the candidates c at the least distance from r *)
FirstClosest(r, c) ==
    c[CHOOSE i \in 1..Len(c) :
        /\ \A j \in 1..Len(c) :
             getDistanceTo(Cur, r, c[i]) <= getDistanceTo(Cur, r, c[j])
        /\ \A j \in 1..(i - 1) :
             getDistanceTo(Cur, r, c[j]) > getDistanceTo(Cur, r, c[i])]

(* the step is a direct call of the engine's method op *)
EngineCall(op) ==
    /\ mode = "engine"
    /\ lastOp'.op = op
    /\ lastOp'.n = lastOp.n + 1

(* C22, as stated: findTarget(unit, enemies) returns null exactly when no  *)
(* enemy is both alive and on the board; otherwise it returns, and stores  *)
(* as unit.target, a living enemy on the board at the least Chebyshev      *)
(* distance, the first of them in roster order.                            *)
C22_FindTargetPicksFirstClosest ==
    [][EngineCall("findTarget")
       => \E r \in {lastOp'.arg.unit} :
            /\ units'[r].target = lastOp'.ret
            /\ (lastOp'.ret = NullRef) <=> (LivingOnBoardEnemies(r) = << >>)
            /\ LivingOnBoardEnemies(r) # << >>
               => lastOp'.ret = FirstClosest(r, LivingOnBoardEnemies(r))]_vars

(* the seeker r can find a target: it is alive and on the board *)
CanSeek(r) == isAlive(Cur, r) /\ isOnBoard(Cur, r)

(* what findTarget leaves in unit.target, for every seeker *)
TargetFound(r) ==
    IF CanSeek(r) /\ LivingOnBoardEnemies(r) # << >>
    THEN FirstClosest(r, LivingOnBoardEnemies(r))
    ELSE NullRef

(* C22, amended: findTarget returns what it stores as unit.target; that is *)
(* null exactly when the unit is dead or off the board, or no enemy is     *)
(* both alive and on the board; otherwise it is the first in roster order  *)
(* of the living enemies on the board at the least Chebyshev distance.     *)
(* The same holds where the loop of tick() looks for a target.             *)
C22_FindTargetOfALivingBoardUnit ==
    [][/\ EngineCall("findTarget")
          => \E r \in {lastOp'.arg.unit} :
               /\ units'[r].target = lastOp'.ret
               /\ lastOp'.ret = TargetFound(r)
       /\ \A r \in frame.todo :
            (Processes(r) /\ ReachesTargeting(r) /\ NeedsTarget(r))
            => units'[r].target = TargetFound(r)]_vars

(* findTarget has just chosen between two living enemies on the board at   *)
(* the same, least distance: it returned the one that comes first          *)
C22_TieAtLeastDistance ==
    /\ mode = "engine"
    /\ lastOp.op = "findTarget"
    /\ lastOp.ret # NullRef
    /\ \E i, j \in 1..Len(LivingOnBoardEnemies(lastOp.arg.unit)) :
         /\ i < j
         /\ LivingOnBoardEnemies(lastOp.arg.unit)[i] = lastOp.ret
         /\ getDistanceTo(Cur, lastOp.arg.unit,
                          LivingOnBoardEnemies(lastOp.arg.unit)[j])
              = getDistanceTo(Cur, lastOp.arg.unit, lastOp.ret)

(* the number of owned units of a template at a star level *)
Copies(G, unitId, star) ==
    Cardinality({ i \in 1..Len(G.ownedUnits) :
                    /\ G.ownedUnits[i].unitId = unitId
                    /\ G.ownedUnits[i].starLevel = star })

(* every bench slot and board cell holds the id of an owned unit that      *)
(* knows it is there, and every owned unit is where it says it is          *)
LocationsAgree(G) ==
    /\ \A i \in 1..BENCH_SIZE :
         G.bench[i] # NullId
         => \E k \in 1..Len(G.ownedUnits) :
              /\ G.ownedUnits[k].id = G.bench[i]
              /\ G.ownedUnits[k].isOnBench
              /\ G.ownedUnits[k].benchIndex = i - 1
    /\ \A c \in PlayerCells :
         G.playerBoard[c] # NullId
         => \E k \in 1..Len(G.ownedUnits) :
              /\ G.ownedUnits[k].id = G.playerBoard[c]
              /\ G.ownedUnits[k].position = c
    /\ \A k \in 1..Len(G.ownedUnits) :
         /\ G.ownedUnits[k].isOnBench
            => G.bench[G.ownedUnits[k].benchIndex + 1] = G.ownedUnits[k].id
         /\ G.ownedUnits[k].position # NoPos
            => G.playerBoard[G.ownedUnits[k].position] = G.ownedUnits[k].id

(* the step is a purchase of the template unitId that succeeded *)
Bought(unitId) ==
    /\ mode = "shop"
    /\ lastOp'.op = "buyUnit"
    /\ lastOp'.arg = unitId
    /\ lastOp'.ret.success
    /\ gameState'.nextId = gameState.nextId + 1

(* three copies at a star level become one copy of the next, level by      *)
(* level: the copies of unitId after a purchase, from those before it      *)
CopiesAfterPurchase(unitId, star) ==
    LET one   == Copies(gameState, unitId, 1) + 1
        two   == Copies(gameState, unitId, 2) + one \div COPIES_TO_UPGRADE
        three == Copies(gameState, unitId, 3) + two \div COPIES_TO_UPGRADE
    IN  IF star = 1 THEN one % COPIES_TO_UPGRADE
        ELSE IF star = 2 THEN two % COPIES_TO_UPGRADE
        ELSE three

(* a purchase combines as the claim says: the copies are those of          *)
(* CopiesAfterPurchase, every unit that remains was owned before or is the *)
(* one bought, with its star level kept or raised, the other templates are *)
(* untouched, and no bench slot or board cell holds a removed unit         *)
CombinesTriples(unitId) ==
    /\ \A star \in 1..3 :
         Copies(gameState', unitId, star) = CopiesAfterPurchase(unitId, star)
    /\ \A k \in 1..Len(gameState'.ownedUnits) :
         \E u \in {gameState'.ownedUnits[k]} :
           \/ u.id = gameState.nextId /\ u.unitId = unitId
           \/ \E j \in 1..Len(gameState.ownedUnits) :
                /\ gameState.ownedUnits[j].id = u.id
                /\ gameState.ownedUnits[j].unitId = u.unitId
                /\ gameState.ownedUnits[j].starLevel <= u.starLevel
                /\ u.unitId # unitId => gameState.ownedUnits[j] = u
    /\ \A t \in ShopTemplates \ {unitId} : \A star \in 1..3 :
         Copies(gameState', t, star) = Copies(gameState, t, star)
    /\ LocationsAgree(gameState')

C24_TargetKeptWhileAlive ==
    [][(mode = "engine" /\ lastOp' = lastOp)
       => \A i \in 1..Len(units) :
            (/\ units[i].target # NullRef
             /\ isAlive(Cur, units[i].target)
             /\ units'[i].state # "dead")
            => units'[i].target = units[i].target]_vars

(* the loop of tick() has just processed a unit that can act and whose     *)
(* living target is farther away than another living enemy on the board    *)
C24_KeptAFartherTarget ==
    /\ mode = "engine"
    /\ frame.active
    /\ frame.unit # NullRef
    /\ canAct(Cur, frame.unit)
    /\ units[frame.unit].target # NullRef
    /\ isAlive(Cur, units[frame.unit].target)
    /\ \E i \in 1..Len(LivingOnBoardEnemies(frame.unit)) :
         getDistanceTo(Cur, frame.unit, LivingOnBoardEnemies(frame.unit)[i])
           < getDistanceTo(Cur, frame.unit, units[frame.unit].target)

(* the target r has when the loop of tick() gets to its cooldown: the one  *)
(* it had, or the one it finds                                             *)
TargetAtTurn(r) ==
    IF NeedsTarget(r) THEN TargetFound(r) ELSE units[r].target

(* r gets as far as the range check of the loop *)
ReachesAction(r) ==
    Processes(r) /\ ReachesTargeting(r) /\ TargetAtTurn(r) # NullRef

(* r is within its range of the target it has at its turn *)
InRange(r) ==
    getDistanceTo(Cur, r, TargetAtTurn(r)) <= getEffectiveRange(Cur, r)

(* the cells moveToward examines for r, in order: toward the target t      *)
(* diagonally, then horizontally, then vertically; or, when the target is  *)
(* in the same row or column, straight and then the two diagonal           *)
(* neighbours of the straight cell                                         *)
MoveCandidates(r, t) ==
    LET x  == units[r].pos[1]
        y  == units[r].pos[2]
        dx == Sign(units[t].pos[1] - x)
        dy == Sign(units[t].pos[2] - y)
    IN  IF dx # 0 /\ dy # 0
        THEN << <<x + dx, y + dy>>, <<x + dx, y>>, <<x, y + dy>> >>
        ELSE IF dx # 0
        THEN << <<x + dx, y>>, <<x + dx, y + 1>>, <<x + dx, y - 1>> >>
        ELSE << <<x, y + dy>>, <<x + 1, y + dy>>, <<x - 1, y + dy>> >>

(* a cell of the board that the engine holds to be free *)
FreeCell(c) ==
    /\ c[1] \in 0..(BOARD_COLS - 1)
    /\ c[2] \in 0..(BOARD_ROWS - 1)
    /\ c \notin occupied

(* the Chebyshev distance of two cells *)
CellDistance(a, b) ==
    Max(IF a[1] >= b[1] THEN a[1] - b[1] ELSE b[1] - a[1],
        IF a[2] >= b[2] THEN a[2] - b[2] ELSE b[2] - a[2])

(* C25: a unit out of range of its target moves, with state MOVING, to the *)
(* first of the cells of MoveCandidates that is on the board and not       *)
(* occupied; when there is none its position is unchanged and its state is *)
(* IDLE.  In one round of the loop only the unit processed moves, by at    *)
(* most one cell, and it stays on the board.                               *)
C25_MovesToFirstFreeCandidate ==
    [][(mode = "engine" /\ frame.active /\ frame'.active)
       => \A r \in frame.todo :
            /\ (ReachesAction(r) /\ ~InRange(r))
               => \E c \in {MoveCandidates(r, TargetAtTurn(r))} :
                    IF \E i \in 1..3 : FreeCell(c[i])
                    THEN /\ units'[r].state = "moving"
                         /\ \E i \in 1..3 :
                              /\ units'[r].pos = c[i]
                              /\ FreeCell(c[i])
                              /\ \A j \in 1..(i - 1) : ~FreeCell(c[j])
                    ELSE /\ units'[r].state = "idle"
                         /\ units'[r].pos = units[r].pos
            /\ Processes(r)
               => /\ \A i \in 1..Len(units) :
                       i # r => units'[i].pos = units[i].pos
                  /\ units[r].pos = NoPos => units'[r].pos = NoPos
                  /\ units[r].pos # NoPos
                     => /\ units'[r].pos # NoPos
                        /\ CellDistance(units[r].pos, units'[r].pos) <= 1
                        /\ units'[r].pos[1] \in 0..(BOARD_COLS - 1)
                        /\ units'[r].pos[2] \in 0..(BOARD_ROWS - 1)]_vars

(* in the first tick the loop has just moved the first player unit, which *)
(* started in the column of its target, to another column: the straight    *)
(* cell was occupied and the unit went to a diagonal neighbour             *)
C25_MovedToALaterCandidate ==
    /\ mode = "engine"
    /\ frame.active
    /\ tickCalls = 1
    /\ frame.unit = playerUnits[1]
    /\ units[frame.unit].state = "moving"
    /\ units[frame.unit].target # NullRef
    /\ input0.units[inPlayer[1]].pos[1]
         = units[units[frame.unit].target].pos[1]
    /\ units[frame.unit].pos[1] # input0.units[inPlayer[1]].pos[1]

(* the combatants of both rosters that are alive and on the board *)
LivingOnBoard ==
    { u \in { (playerUnits \o enemyUnits)[i] :
                i \in 1..Len(playerUnits \o enemyUnits) } :
        isAlive(Cur, u) /\ isOnBoard(Cur, u) }

(* C26: the combatants start in pairwise distinct cells, and at every      *)
(* point of a tick, after the action of each single unit and when the tick *)
(* ends, no two living combatants on the board are in the same cell.       *)
C26_NoSharedCell ==
    mode = "engine"
    => \A u, v \in LivingOnBoard : u # v => units[u].pos # units[v].pos

(* in the first tick the two units of the player's roster, which started   *)
(* next to each other, have both moved and are alive, next to each other   *)
C26_TwoAlliesMoved ==
    /\ mode = "engine"
    /\ frame.active
    /\ Len(playerUnits) = 2
    /\ \A i \in 1..2 :
         /\ playerUnits[i] \in LivingOnBoard
         /\ units[playerUnits[i]].state = "moving"
         /\ units[playerUnits[i]].pos # input0.units[inPlayer[i]].pos
    /\ CellDistance(units[playerUnits[1]].pos, units[playerUnits[2]].pos) = 1

(* the state after the step, for the operators that read a heap *)
After == [Cur EXCEPT !.units = units', !.buffs = buffs']

(* the entries the step adds to the combat log *)
NewEntries == SubSeq(combatLog', Len(combatLog) + 1, Len(combatLog'))

(* the number of attacks, and of moves, of r that the step logs *)
Attacks(r) ==
    Cardinality({ i \in 1..Len(NewEntries) :
                    /\ NewEntries[i].type = "attack"
                    /\ NewEntries[i].data.attacker = r })
Moves(r) ==
    Cardinality({ i \in 1..Len(NewEntries) :
                    /\ NewEntries[i].type = "move"
                    /\ NewEntries[i].data.unit = r })

(* the attack cooldown of r after this tick's decrement *)
CooldownAtTurn(r) ==
    IF units[r].attackCooldown > 0 THEN units[r].attackCooldown - 1
    ELSE units[r].attackCooldown

(* the attacks and moves of r that the log holds for the tick k *)
ActionsInTick(r, k) ==
    Cardinality({ i \in 1..Len(combatLog') :
                    /\ combatLog'[i].tick = k
                    /\ \/ /\ combatLog'[i].type = "attack"
                          /\ combatLog'[i].data.attacker = r
                       \/ /\ combatLog'[i].type = "move"
                          /\ combatLog'[i].data.unit = r })

(* C27: in the loop of tick() a unit attacks exactly when it gets to the   *)
(* range check with its target within its effective range and its attack   *)
(* cooldown, after this tick's decrement, at most 0; the attack leaves the *)
(* cooldown at 1 / effectiveAttackSpeed and the state ATTACKING.  In range *)
(* with a positive cooldown the unit only sets its state to IDLE; out of   *)
(* range it does not attack.  No unit attacks or moves more than once in a *)
(* tick, nor does both.                                                    *)
C27_AttackOnlyInRangeAndReady ==
    [][(mode = "engine" /\ frame.active /\ frame'.active)
       => \A r \in frame.todo :
            Processes(r)
            => /\ Attacks(r) = 1
                  <=> (ReachesAction(r) /\ InRange(r) /\ CooldownAtTurn(r) <= 0)
               /\ Attacks(r) = 1
                  => /\ units'[r].attackCooldown
                          = CooldownTicks(effectiveAttackSpeed(After, r))
                     /\ units'[r].state = "attacking"
               /\ (ReachesAction(r) /\ InRange(r) /\ CooldownAtTurn(r) > 0)
                  => /\ units' = [units EXCEPT
                                    ![r].state = "idle",
                                    ![r].attackCooldown = CooldownAtTurn(r),
                                    ![r].target = TargetAtTurn(r),
                                    ![r].statusEffects =
                                       updateStatusEffects(Cur, r).units[r]
                                         .statusEffects]
                     /\ buffs' = buffs
                     /\ combatLog' = combatLog
               /\ (ReachesAction(r) /\ ~InRange(r)) => Attacks(r) = 0
               /\ Attacks(r) + Moves(r) <= 1
               /\ \A i \in 1..Len(units) :
                    /\ i # r => Attacks(i) + Moves(i) = 0
                    /\ \A k \in 1..tickCount : ActionsInTick(i, k) <= 1]_vars

(* the loop of tick() has just processed a unit that attacked: its state   *)
(* is ATTACKING, its cooldown runs, the log holds the attack               *)
C27_HasAttacked ==
    /\ mode = "engine"
    /\ frame.active
    /\ frame.unit # NullRef
    /\ units[frame.unit].state = "attacking"
    /\ units[frame.unit].attackCooldown > 0
    /\ \E i \in 1..Len(combatLog) :
         /\ combatLog[i].tick = tickCount
         /\ combatLog[i].type = "attack"
         /\ combatLog[i].data.attacker = frame.unit

(* r is stunned and this tick's decay leaves it stunned; r is stunned and  *)
(* this tick's decay ends the stun                                         *)
StaysStunned(r) ==
    /\ units[r].statusEffects.stunned
    /\ units[r].statusEffects.stunDuration - 1 > 0
StunEnds(r) ==
    /\ units[r].statusEffects.stunned
    /\ units[r].statusEffects.stunDuration - 1 <= 0

(* r as it would be had its stun ended before the tick *)
Unstunned(r) ==
    [Cur EXCEPT !.units[r].statusEffects.stunned = FALSE,
                !.units[r].statusEffects.stunDuration = 0]

(* C28: a living unit that is still stunned after this tick's decay of its *)
(* status effects does nothing in the tick: only its status timers change, *)
(* its target, cooldown, position, state and mana stay, nothing is logged  *)
(* and no other unit is touched.  When the decay brings the remaining stun *)
(* to 0 or less the flag clears and the unit does in that same tick what a *)
(* unit that was not stunned does.                                         *)
C28_StunnedUnitDoesNothing ==
    [][(mode = "engine" /\ frame.active /\ frame'.active)
       => \A r \in frame.todo :
            (Processes(r) /\ isAlive(Cur, r))
            => /\ StaysStunned(r)
                  => /\ units' = [units EXCEPT
                                    ![r].statusEffects =
                                       updateStatusEffects(Cur, r).units[r]
                                         .statusEffects]
                     /\ units'[r].statusEffects.stunned
                     /\ units'[r].statusEffects.stunDuration
                          = units[r].statusEffects.stunDuration - 1
                     /\ buffs' = buffs
                     /\ combatLog' = combatLog
                     /\ occupied' = occupied
               /\ StunEnds(r)
                  => /\ ~units'[r].statusEffects.stunned
                     /\ units'[r].statusEffects.stunDuration = 0
                     /\ \E H \in ProcessUnit(Unstunned(r), r,
                                              frame.alivePlayerUnits,
                                              frame.aliveEnemyUnits) :
                          /\ units' = H.units
                          /\ buffs' = H.buffs
                          /\ combatLog' = H.log
                          /\ occupied' = H.occupied]_vars

(* the loop of tick() has just passed over a unit that is still stunned,   *)
(* has a living target within its range and a cooldown that did not run    *)
C28_PassedOverWhileStunned ==
    /\ mode = "engine"
    /\ frame.active
    /\ frame.unit # NullRef
    /\ isAlive(Cur, frame.unit)
    /\ units[frame.unit].statusEffects.stunned
    /\ units[frame.unit].statusEffects.stunDuration = 1
    /\ units[frame.unit].attackCooldown = 2
    /\ units[frame.unit].target # NullRef
    /\ isAlive(Cur, units[frame.unit].target)
    /\ getDistanceTo(Cur, frame.unit, units[frame.unit].target)
         <= getEffectiveRange(Cur, frame.unit)

(* the number of entries of an ability of r that the step logs *)
Casts(r) ==
    Cardinality({ i \in 1..Len(NewEntries) :
                    /\ NewEntries[i].type \in {"ability_damage", "ability_buff",
                                               "ability_chain", "ability_hit"}
                    /\ NewEntries[i].data.caster = r })

(* the mana of r once an attack has added MANA_PER_ATTACK and the mana     *)
(* regeneration of its buffs, capped at maxMana                            *)
ManaAfterAttack(r) ==
    Min(units[r].maxMana,
        units[r].currentMana + MANA_PER_ATTACK + buffs[units[r].buffs].manaRegen)

(* an attack of r in this step ends with a cast *)
ShouldCast(r) ==
    abilityOf(units[r]).present /\ ManaAfterAttack(r) >= units[r].maxMana

(* what C29 says of an attack of r made in this step *)
CastFollowsAttack(r) ==
    /\ Casts(r) > 0 <=> ShouldCast(r)
    /\ ShouldCast(r) => units'[r].currentMana = 0
    /\ ~ShouldCast(r) => units'[r].currentMana = ManaAfterAttack(r)

(* C29: the engine casts the ability of a unit exactly when, right after   *)
(* an attack of that unit, the unit has an ability and its mana is at      *)
(* least maxMana; the cast leaves the mana at 0 and, when attack returns,  *)
(* the state CASTING.  A unit without an ability never casts, and the mana *)
(* of every combatant stays between 0 and maxMana.                         *)
C29_CastExactlyOnFullMana ==
    [][mode = "engine"
       => /\ \A r \in frame.todo :
               (Processes(r) /\ frame.active)
               => /\ Attacks(r) = 0 => Casts(r) = 0
                  /\ Attacks(r) = 1 => CastFollowsAttack(r)
                  /\ \A i \in 1..Len(units) : i # r => Casts(i) = 0
          /\ EngineCall("attack")
             => \E r \in {lastOp'.arg.unit} :
                  /\ Attacks(r) = 0 => Casts(r) = 0
                  /\ Attacks(r) = 1
                     => /\ CastFollowsAttack(r)
                        /\ ShouldCast(r) => units'[r].state = "casting"
                  /\ \A i \in 1..Len(units) : i # r => Casts(i) = 0
          /\ \A i \in 1..Len(units') :
               /\ ~abilityOf(units'[i]).present => Casts(i) = 0
               /\ units'[i].currentMana \in 0..units'[i].maxMana]_vars

(* attack has just returned after casting the ability of the attacker *)
C29_CastAfterAttack ==
    /\ mode = "engine"
    /\ lastOp.op = "attack"
    /\ units[lastOp.arg.unit].state = "casting"
    /\ units[lastOp.arg.unit].currentMana = 0
    /\ \E i, j \in 1..Len(combatLog) :
         /\ i < j
         /\ combatLog[i].type = "attack"
         /\ combatLog[i].data.attacker = lastOp.arg.unit
         /\ combatLog[j].type = "ability_damage"
         /\ combatLog[j].data.caster = lastOp.arg.unit

(* the living enemies of the caster c, in roster order *)
LivingEnemies(c) ==
    SelectSeq(IF units[c].ownerId = "player" THEN enemyUnits ELSE playerUnits,
              LAMBDA e : isAlive(Cur, e))

(* the hits of the ability of c that the step logs, in order *)
AbilityHitsLogged(c) ==
    SelectSeq(NewEntries,
              LAMBDA e : /\ e.type \in {"ability_damage", "ability_chain"}
                         /\ e.data.caster = c)

(* C30: a cast of a chain ability (chainTargets N, with damage) hits       *)
(* min(N, living enemies) living enemies, each exactly once, the closest    *)
(* ones in ascending order of distance from the caster; the hit at         *)
(* position i deals the raw magic damage                                   *)
(* floor(damage * (1 + spellPower/100) * (1 - 0.2 * i)), and every enemy   *)
(* is alive when it is hit.                                                *)
C30_ChainHitsEachClosestOnce ==
    [][(EngineCall("castAbility")
        /\ abilityOf(units[lastOp'.arg.unit]).chainTargets > 0
        /\ abilityOf(units[lastOp'.arg.unit]).damage > 0)
       => \E c \in {lastOp'.arg.unit} :
            \E hits \in {AbilityHitsLogged(c)}, living \in {LivingEnemies(c)} :
              /\ Len(hits)
                   = Min(abilityOf(units[c]).chainTargets, Len(living))
              /\ \A i \in 1..Len(hits) :
                   /\ isAlive(Cur, hits[i].data.target)
                   /\ \A j \in 1..Len(hits) :
                        i # j => hits[i].data.target # hits[j].data.target
                   /\ \A j \in 1..Len(hits) :
                        i < j => getDistanceTo(Cur, c, hits[i].data.target)
                                   <= getDistanceTo(Cur, c, hits[j].data.target)
                   /\ \A k \in 1..Len(living) :
                        getDistanceTo(Cur, c, living[k])
                          < getDistanceTo(Cur, c, hits[i].data.target)
                        => \E j \in 1..Len(hits) :
                             hits[j].data.target = living[k]
                   /\ hits[i].data.damage
                        = takeDamage(Cur, hits[i].data.target,
                                     Num((abilityOf(units[c]).damage
                                            * (100 + buffs[units[c].buffs].spellPower)
                                            * (10 - 2 * (i - 1))) \div 1000),
                                     "magic").ret
                   /\ ~hits[i].data.damage.nan
                   /\ hits[i].data.damage.v > 0]_vars

(* the combat has been set up by start() or runSync() and its first tick  *)
(* has not run yet                                                        *)
BeforeFirstTick ==
    /\ mode \in {"realtime", "sync"}
    /\ isRunning
    /\ tickCount = 0

(* C31: when the first tick of a combat starts, every combatant of either *)
(* side is at full health: its currentHp equals its effectiveMaxHp, that  *)
(* is maxHp plus the hpBonus of the traits active on its side, whatever   *)
(* buffs the input unit carried.                                          *)
C31_FullHealthAtFirstTick ==
    BeforeFirstTick
    => \A i \in 1..Len(playerUnits \o enemyUnits) :
         units[(playerUnits \o enemyUnits)[i]].currentHp
           = Num(effectiveMaxHp(Cur, (playerUnits \o enemyUnits)[i]))

(* the step runs GameState.endCombat for a lost combat that takes the     *)
(* player's last hp                                                        *)
LosesLastHp ==
    /\ game'.applied > game.applied
    /\ gameState.hp > 0
    /\ gameState'.hp = 0

(* C32: when a lost combat reduces the player's hp to 0, the phase is     *)
(* GAME_OVER once GameState.endCombat has returned; Game.endCombat then   *)
(* runs gameOver() and schedules no next round; and the phase stays       *)
(* GAME_OVER, with no further prep or combat phase, until the game is     *)
(* reset.                                                                 *)
C32_GameOverAtZeroHp ==
    /\ [][LosesLastHp
          => /\ isGameOver(gameState')
             /\ game'.gameOvers = game.gameOvers + 1
             /\ timers'.nextRound = timers.nextRound]_vars
    /\ [](mode = "game" /\ gameState.hp = 0 => isGameOver(gameState))

(* the step ends a combat phase: Game.startCombat has the result of its   *)
(* battle and hands it to Game.endCombat                                  *)
AppliesResult == game'.applied > game.applied

(* C33: each combat phase applies its result to the game state exactly    *)
(* once: between Game.startCombat and the following prep phase the round  *)
(* number increases by exactly 1 and exactly one of wins and losses       *)
(* increases by 1, also when an exception inside the try block of         *)
(* startCombat makes the catch block run the synchronous fallback.        *)
C33_ResultAppliedOnce ==
    [][AppliesResult
       => /\ game'.applied = game.applied + 1
          /\ gameState'.round = gameState.round + 1
          /\ \/ /\ gameState'.wins = gameState.wins + 1
                /\ gameState'.losses = gameState.losses
             \/ /\ gameState'.wins = gameState.wins
                /\ gameState'.losses = gameState.losses + 1]_vars

(* C34: at any time at most one interval timer drives the ticks of a      *)
(* Combat instance: a start() on an instance that is already running      *)
(* does not leave the earlier timer active next to the new one, and once  *)
(* the combat has ended no timer of the instance remains active.          *)
C34_AtMostOneTickTimer ==
    /\ timers.tick <= 1
    /\ (mode = "realtime" /\ ~isRunning) => timers.tick = 0

(* C35: under fair firing of the tick timer, a real-time combat started    *)
(* on two non-empty rosters whose units stand on the board at pairwise     *)
(* distinct cells eventually ends: the engine stops, its timer is cleared, *)
(* a winner is recorded and the completion promise is resolved, once.      *)
CombatEnded ==
    /\ ~isRunning
    /\ ~tickInterval
    /\ result.winner \in {"player", "enemy", "draw"}
    /\ resolved = 1

IsBoss(i) ==
    input0.units[i].maxHp
      > NewUnit(input0.units[i].templateId, input0.units[i].starLevel, 0).maxHp

(* C36: when the first tick starts, the combat clone of a unit that        *)
(* createBossRound buffed has at least the multiplied maxHp as effective   *)
(* max HP and as current HP, and at least the attack, armor and            *)
(* magic-resist bonuses that applyBossBuffs added.                         *)
C36_BossBuffsInCombat ==
    BeforeFirstTick
    => \A e \in 1..Len(enemyUnits) :
         IsBoss(inEnemy[e])
         => /\ effectiveMaxHp(Cur, enemyUnits[e]) >= input0.units[inEnemy[e]].maxHp
            /\ ~units[enemyUnits[e]].currentHp.nan
            /\ units[enemyUnits[e]].currentHp.v >= input0.units[inEnemy[e]].maxHp
            /\ buffs[units[enemyUnits[e]].buffs].attackBonus
                 >= input0.buffs[input0.units[inEnemy[e]].buffs].attackBonus
            /\ buffs[units[enemyUnits[e]].buffs].armorBonus
                 >= input0.buffs[input0.units[inEnemy[e]].buffs].armorBonus
            /\ buffs[units[enemyUnits[e]].buffs].magicResistBonus
                 >= input0.buffs[input0.units[inEnemy[e]].buffs].magicResistBonus

(* C37: every "move" entry a step adds to the combat log records in `from` *)
(* the cell the unit occupied before the step and in `to` the cell it      *)
(* occupies after it, and the two cells are distinct and adjacent          *)
(* (Chebyshev distance 1).                                                 *)
C37_MoveEntryRecordsStep ==
    [][\A i \in 1..Len(NewEntries) :
         NewEntries[i].type = "move"
         => /\ NewEntries[i].data.from = units[NewEntries[i].data.unit].pos
            /\ NewEntries[i].data.to = units'[NewEntries[i].data.unit].pos
            /\ NewEntries[i].data.from # NewEntries[i].data.to
            /\ CellDistance(NewEntries[i].data.from, NewEntries[i].data.to) = 1]_vars

(* C38: whatever purchases, placements, swaps, bench moves, combines,      *)
(* sales and level-ups the prep phase has seen, the number of units on the *)
(* player's board is at most the player's level.                           *)
C38_TeamSizeWithinLevel ==
    mode = "roster" => TeamSize(gameState) <= gameState.level

(* the team is full at level 2 or more, a unit waits on the bench, and the *)
(* last call was a drop                                                    *)
C38_Witness ==
    /\ mode = "roster"
    /\ lastOp.op = "drop"
    /\ game.steps >= 2
    /\ gameState.level >= 2
    /\ TeamSize(gameState) = gameState.level
    /\ \E k \in 1..Len(gameState.ownedUnits) : gameState.ownedUnits[k].isOnBench

(* the number of board cells and bench slots that hold the unit id *)
Places(G, id) ==
    Cardinality({ c \in PlayerCells : G.playerBoard[c] = id })
      + Cardinality({ s \in 1..BENCH_SIZE : G.bench[s] = id })

(* C39: every owned unit is recorded in exactly one place, a board cell    *)
(* equal to its position or a bench slot whose index is its benchIndex,    *)
(* and every non-empty board cell and bench slot holds the id of an owned  *)
(* unit (so no two units share a cell or a slot).                          *)
C39_OnePlacePerUnit ==
    mode = "roster"
    => /\ \A k \in 1..Len(gameState.ownedUnits) :
            /\ Places(gameState, gameState.ownedUnits[k].id) = 1
            /\ \A c \in PlayerCells :
                 gameState.playerBoard[c] = gameState.ownedUnits[k].id
                 => /\ gameState.ownedUnits[k].position = c
                    /\ ~gameState.ownedUnits[k].isOnBench
            /\ \A s \in 1..BENCH_SIZE :
                 gameState.bench[s] = gameState.ownedUnits[k].id
                 => /\ gameState.ownedUnits[k].isOnBench
                    /\ gameState.ownedUnits[k].benchIndex = s - 1
                    /\ gameState.ownedUnits[k].position = NoPos
       /\ \A c \in PlayerCells :
            gameState.playerBoard[c] # NullId
            => isOwned(gameState, gameState.playerBoard[c])
       /\ \A s \in 1..BENCH_SIZE :
            gameState.bench[s] # NullId => isOwned(gameState, gameState.bench[s])

(* after a purchase and two drops, both followed cells hold a unit and a   *)
(* unit is on the bench                                                    *)
C39_Witness ==
    /\ mode = "roster"
    /\ lastOp.op = "drop"
    /\ game.steps >= 3
    /\ gameState.nextId > 1
    /\ \A c \in RosterCells : gameState.playerBoard[c] # NullId
    /\ \E k \in 1..Len(gameState.ownedUnits) : gameState.ownedUnits[k].isOnBench

(* the step is a call of Shop.buyUnit that failed *)
PurchaseFails ==
    /\ mode = "roster"
    /\ game'.steps = game.steps + 1
    /\ lastOp'.op = "buyUnit"
    /\ ~lastOp'.ret.success

(* C40: unit copies are conserved: for every template the pool count plus  *)
(* the copies held in owned units, 3^(starLevel - 1) per unit, is the      *)
(* template's initial pool size, and the pool count is never negative; and *)
(* a failed purchase changes neither gold, pool, bench nor offers.         *)
C40_CopiesConserved ==
    /\ [](mode = "roster"
          => \A t \in ShopTemplates :
               /\ gameState.unitPool[t] + copiesIn(gameState.ownedUnits, t)
                    = UNIT_POOL_SIZE[ShopCost[t]]
               /\ gameState.unitPool[t] >= 0)
    /\ [][PurchaseFails
          => /\ gameState'.gold = gameState.gold
             /\ gameState'.unitPool = gameState.unitPool
             /\ gameState'.bench = gameState.bench
             /\ game'.offers = game.offers]_vars

(* a purchase combined twice, up to a 3-star unit, and that unit was sold: *)
(* every copy of the squire is back in the pool                            *)
C40_Witness ==
    /\ mode = "roster"
    /\ lastOp.op = "sellUnit"
    /\ gameState.unitsUpgraded >= 2
    /\ gameState.unitPool["squire"] = UNIT_POOL_SIZE[ShopCost["squire"]]
    /\ gameState.ownedUnits = << >>

====
